---- MODULE Spec2Model ----
(***************************************************************************)
(* twitter-cli: the cache-or-mock-or-fetch decision path of lib/api.ts,    *)
(* the file-backed cache of lib/cache.ts, the configuration of             *)
(* lib/config.ts and the mock generators of lib/mock-data.ts.              *)
(*                                                                         *)
(* Strings are sequences of UTF-16 code units, so that toLowerCase,        *)
(* hashString, template literals and number formatting are computed, not   *)
(* assumed.  A JavaScript value that may be undefined, a number, a string  *)
(* or a boolean is a record [t, n, s] of one shape.                        *)
(***************************************************************************)
EXTENDS Integers, Sequences, FiniteSets, TLC

(* ------------------------------ bounds -------------------------------- *)

\* The clock never passes MaxNow (milliseconds) ...
MaxNow == 60002
\* ... and, where only the cache library is called, MaxCacheNow.
MaxCacheNow == 2
\* Operations (searchTweets / getReplies / getUserTweets) started in one behaviour.
MaxCalls == 2
\* Direct cache calls (getCache, setCache, deleteCache, clearCache) in one behaviour.
MaxDirect == 3
\* `config set` commands in one behaviour.
MaxConfig == 1

(* ------------------------- program constants --------------------------- *)

DefaultLimit == 10
DefaultTtlMinutes == 15
MsPerMinute == 60 * 1000
DefaultHours == 168

(* ------------------------------ strings -------------------------------- *)

S_popular == <<112, 111, 112, 117, 108, 97, 114>>      \* "popular"
S_recent == <<114, 101, 99, 101, 110, 116>>            \* "recent"
S_1h == <<49, 104>>                                    \* "1h"
S_ai == <<97, 105>>                                    \* "ai"
S_ml == <<109, 108>>                                   \* "ml"
S_Bob == <<66, 111, 98>>                               \* "Bob"
S_bob == <<98, 111, 98>>                               \* "bob"
S_unknown == <<117, 110, 107, 110, 111, 119, 110>>     \* "unknown"
S_undefined == <<117, 110, 100, 101, 102, 105, 110, 101, 100>> \* "undefined"
S_colon == <<58>>                                      \* ":"
S_minus == <<45>>                                      \* "-"

\* String.prototype.toLowerCase on the ASCII range.
ToLowerCase(s) ==
  [i \in DOMAIN s |-> IF s[i] >= 65 /\ s[i] <= 90 THEN s[i] + 32 ELSE s[i]]

\* Number.prototype.toString for an integer (what a template literal inserts).
RECURSIVE NatDigits(_)
NatDigits(n) ==
  IF n < 10 THEN <<48 + n>> ELSE NatDigits(n \div 10) \o <<48 + (n % 10)>>

NumToString(n) == IF n < 0 THEN S_minus \o NatDigits(0 - n) ELSE NatDigits(n)

(* --------------------------- JavaScript values -------------------------- *)

\* Record constructors list their fields in the order in which the names first
\* occur in this module, which is the order TLC keeps records in: a record
\* written so is already in normal form, and values shared between TLC's
\* workers are never rearranged while another worker reads them.
Undef == [s |-> <<>>, n |-> 0, t |-> "undef"]
Num(n) == [s |-> <<>>, n |-> n, t |-> "num"]
Str(s) == [s |-> s, n |-> 0, t |-> "str"]
Bool(b) == [s |-> <<>>, n |-> (IF b THEN 1 ELSE 0), t |-> "bool"]

\* JavaScript truthiness: undefined, 0, "" and false are falsy.
Truthy(v) ==
  CASE v.t = "undef" -> FALSE
    [] v.t = "num" -> v.n # 0
    [] v.t = "str" -> v.s # <<>>
    [] OTHER -> v.n = 1

\* `${v}` for a string, a number or undefined.
Interpolate(v) ==
  CASE v.t = "str" -> v.s
    [] v.t = "num" -> NumToString(v.n)
    [] OTHER -> S_undefined

\* An object literal: its properties in insertion order.
Prop(k, v) == [v |-> v, k |-> k]

HasProp(o, name) == \E i \in DOMAIN o : o[i].k = name

\* obj.name: undefined when the property is missing.
Get(o, name) ==
  IF HasProp(o, name) THEN o[CHOOSE i \in DOMAIN o : o[i].k = name].v ELSE Undef

\* A destructuring or parameter default: `name = d` applies when the value is undefined.
WithDefault(v, d) == IF v.t = "undef" THEN d ELSE v

\* JSON.stringify of a flat object: properties whose value is undefined are
\* left out, the others keep their insertion order.
JsonStringifyObject(o) == SelectSeq(o, LAMBDA p : p.v.t # "undef")

(* ------------------------------- dates --------------------------------- *)

\* The value of a created_at field: a Date object (valid or Invalid Date), the
\* ISO-8601 string JSON holds for it, JSON null, or undefined.
DateOf(t) == [t |-> t, kind |-> "date"]
InvalidDate == [t |-> 0, kind |-> "invalid"]
IsoString(t) == [t |-> t, kind |-> "iso"]
JsonNull == [t |-> 0, kind |-> "null"]
NoDate == [t |-> 0, kind |-> "undef"]

\* new Date(x): a Date copies, an ISO string parses, null is the epoch,
\* undefined is Invalid Date.
NewDate(x) ==
  CASE x.kind = "date" -> x
    [] x.kind = "iso" -> DateOf(x.t)
    [] x.kind = "null" -> DateOf(0)
    [] OTHER -> InvalidDate

\* JSON.stringify then JSON.parse of a created_at value: Date.prototype.toJSON
\* gives the ISO string, and null for an Invalid Date.
DateToJson(x) ==
  CASE x.kind = "date" -> IsoString(x.t)
    [] x.kind = "invalid" -> JsonNull
    [] OTHER -> x

(* --------------------------- lib/config.ts ------------------------------ *)

\* The config file's object; a missing or unreadable file reads as no properties.
EmptyConfigFile == [bearerToken |-> Undef, cacheEnabled |-> Undef, cacheTtlMinutes |-> Undef]

DEFAULT_CONFIG == [bearerToken |-> Undef, cacheEnabled |-> Bool(TRUE),
                   cacheTtlMinutes |-> Num(DefaultTtlMinutes)]

\* { ...DEFAULT_CONFIG, ...JSON.parse(content) }: JSON has no undefined, so a
\* property the file lacks keeps its default.
loadConfig(file) ==
  [f \in DOMAIN DEFAULT_CONFIG |->
     IF file[f].t = "undef" THEN DEFAULT_CONFIG[f] ELSE file[f]]

\* The precedence reversed: the config file's token if truthy, the environment's
\* otherwise.
getBearerTokenFileFirst(env, file) ==
  IF Truthy(loadConfig(file).bearerToken) THEN loadConfig(file).bearerToken ELSE env

\* process.env.TWITTER_BEARER_TOKEN if truthy, the config file's token otherwise.
getBearerToken(env, file) ==
  IF Truthy(env) THEN env ELSE loadConfig(file).bearerToken

isDemoMode(env, file) == ~Truthy(getBearerToken(env, file))

(* ---------------------------- lib/cache.ts ------------------------------ *)

\* A store is a function from the keys it holds to entries [data, timestamp, ttl].
EmptyStore == << >>

\* Keys compared ignoring letter case: the entry goes under the lower-cased key.
StoreWithFoldedKey(store, key, entry) ==
  LET folded == [key EXCEPT !.text = ToLowerCase(@)]
  IN [k \in DOMAIN store \cup {folded} |-> IF k = folded THEN entry ELSE store[k]]

StoreWith(store, key, entry) ==
  [k \in DOMAIN store \cup {key} |-> IF k = key THEN entry ELSE store[k]]

StoreWithout(store, key) == [k \in DOMAIN store \ {key} |-> store[k]]

\* JSON.stringify of one record, then JSON.parse: only created_at changes shape.
TweetToJson(tw) == [tw EXCEPT !.created_at = DateToJson(tw.created_at)]

\* What the cache file holds for a store, as JSON.parse reads it back.
StoreToJson(store) ==
  [k \in DOMAIN store |->
     [store[k] EXCEPT !.data = [i \in DOMAIN store[k].data |-> TweetToJson(store[k].data[i])]]]

NoFile == [store |-> EmptyStore, state |-> "absent"]

\* getCacheTtl
getCacheTtl(file) ==
  LET m == loadConfig(file).cacheTtlMinutes
  IN (IF Truthy(m) THEN m.n ELSE DefaultTtlMinutes) * MsPerMinute

\* isCacheEnabled: config.cacheEnabled !== false
isCacheEnabled(file) ==
  LET e == loadConfig(file).cacheEnabled IN ~(e.t = "bool" /\ e.n = 0)

\* What the file holds when it is not a store: text JSON.parse rejects, or the
\* JSON text of null, of an array, or of a number, string or boolean.
Unparsable == "unparsable"
NotAnObject == {"null", "array", "scalar"}

\* A load that reads the file at every call, whatever the process holds.
loadCacheFromDiskEveryCall(c, disk) ==
  [kind |-> IF disk.state \in NotAnObject THEN disk.state
            ELSE IF disk.state = "absent" THEN c.kind ELSE "object",
   loaded |-> TRUE,
   mem |-> IF disk.state = "ok" THEN disk.store
           ELSE IF disk.state = "absent" THEN c.mem ELSE EmptyStore]

\* loadCacheFromDisk: once per process; a missing file leaves memoryCache alone,
\* a file JSON.parse rejects gives {}, and any value JSON.parse returns becomes
\* memoryCache as it is.
loadCacheFromDisk(c, disk) ==
  IF c.loaded THEN c
  ELSE [kind |-> IF disk.state \in NotAnObject THEN disk.state
                 ELSE IF disk.state = "absent" THEN c.kind ELSE "object",
        loaded |-> TRUE,
        mem |-> IF disk.state = "ok" THEN disk.store
                ELSE IF disk.state = "absent" THEN c.mem ELSE EmptyStore]

\* saveCacheToDisk: JSON.stringify(memoryCache) replaces the file. Of an array
\* JSON.stringify writes the elements only, not the properties set by key.
saveCacheToDisk(c) ==
  IF c.kind = "object" THEN [store |-> StoreToJson(c.mem), state |-> "ok"]
  ELSE [store |-> EmptyStore, state |-> c.kind]

\* entry expired at time t: Date.now() - entry.timestamp > entry.ttl
Expired(entry, t) == t - entry.timestamp > entry.ttl

\* getCache with the comparison `>=`: an entry whose age equals its ttl is
\* already expired.
getCacheExpiresAtTtl(c, disk, cfg, t, key) ==
  IF ~isCacheEnabled(cfg) THEN [data |-> <<>>, c |-> c, hit |-> FALSE, threw |-> FALSE]
  ELSE LET l == loadCacheFromDisk(c, disk)
       IN IF l.kind = "null"
          THEN [data |-> <<>>, c |-> l, hit |-> FALSE, threw |-> TRUE]
          ELSE IF key \notin DOMAIN l.mem THEN [data |-> <<>>, c |-> l, hit |-> FALSE, threw |-> FALSE]
          ELSE IF t - l.mem[key].timestamp >= l.mem[key].ttl
               THEN [data |-> <<>>, c |-> [l EXCEPT !.mem = StoreWithout(l.mem, key)],
                     hit |-> FALSE, threw |-> FALSE]
               ELSE [data |-> l.mem[key].data, c |-> l, hit |-> TRUE, threw |-> FALSE]

\* getCache without the `delete memoryCache[key]`: an expired entry reads as
\* absent and stays in the store.
getCacheKeepsExpired(c, disk, cfg, t, key) ==
  IF ~isCacheEnabled(cfg) THEN [data |-> <<>>, c |-> c, hit |-> FALSE, threw |-> FALSE]
  ELSE LET l == loadCacheFromDisk(c, disk)
       IN IF l.kind = "null"
          THEN [data |-> <<>>, c |-> l, hit |-> FALSE, threw |-> TRUE]
          ELSE IF key \notin DOMAIN l.mem THEN [data |-> <<>>, c |-> l, hit |-> FALSE, threw |-> FALSE]
          ELSE IF Expired(l.mem[key], t)
               THEN [data |-> <<>>, c |-> l, hit |-> FALSE, threw |-> FALSE]
               ELSE [data |-> l.mem[key].data, c |-> l, hit |-> TRUE, threw |-> FALSE]

\* getCache(key) for the process cache c = [mem, loaded]: the value returned
\* (hit, data) and the process cache afterwards.
getCache(c, disk, cfg, t, key) ==
  IF ~isCacheEnabled(cfg) THEN [data |-> <<>>, c |-> c, hit |-> FALSE, threw |-> FALSE]
  ELSE LET l == loadCacheFromDisk(c, disk)
       IN IF l.kind = "null"
          THEN [data |-> <<>>, c |-> l, hit |-> FALSE, threw |-> TRUE]
          ELSE IF key \notin DOMAIN l.mem THEN [data |-> <<>>, c |-> l, hit |-> FALSE, threw |-> FALSE]
          ELSE IF Expired(l.mem[key], t)
               THEN [data |-> <<>>, c |-> [l EXCEPT !.mem = StoreWithout(l.mem, key)],
                     hit |-> FALSE, threw |-> FALSE]
               ELSE [data |-> l.mem[key].data, c |-> l, hit |-> TRUE, threw |-> FALSE]

\* setCache without the `if (!isCacheEnabled()) return`.
setCacheUnconditional(c, disk, cfg, t, key, data, ttl) ==
  LET l == loadCacheFromDisk(c, disk)
      e == [data |-> data, timestamp |-> t,
            ttl |-> IF Truthy(ttl) THEN ttl.n ELSE getCacheTtl(cfg)]
      w == [l EXCEPT !.mem = StoreWith(l.mem, key, e)]
  IN IF l.kind \in {"null", "scalar"} THEN [c |-> l, disk |-> disk, threw |-> TRUE]
     ELSE [c |-> w, disk |-> saveCacheToDisk(w), threw |-> FALSE]

\* setCache(key, data, ttl): the process cache and the file afterwards.
\* ttl is a JavaScript value: `ttl || getCacheTtl()`.  The assignment
\* memoryCache[key] = ... throws a TypeError when memoryCache is null or (in
\* module code, which is strict) a number, string or boolean.
setCache(c, disk, cfg, t, key, data, ttl) ==
  IF ~isCacheEnabled(cfg) THEN [c |-> c, disk |-> disk, threw |-> FALSE]
  ELSE LET l == loadCacheFromDisk(c, disk)
           e == [data |-> data, timestamp |-> t,
                 ttl |-> IF Truthy(ttl) THEN ttl.n ELSE getCacheTtl(cfg)]
           w == [l EXCEPT !.mem = StoreWith(l.mem, key, e)]
       IN IF l.kind \in {"null", "scalar"} THEN [c |-> l, disk |-> disk, threw |-> TRUE]
          ELSE [c |-> w, disk |-> saveCacheToDisk(w), threw |-> FALSE]

\* deleteCache(key); `delete memoryCache[key]` throws when memoryCache is null.
deleteCache(c, disk, key) ==
  LET l == loadCacheFromDisk(c, disk)
      w == [l EXCEPT !.mem = StoreWithout(l.mem, key)]
  IN IF l.kind = "null" THEN [c |-> l, disk |-> disk, threw |-> TRUE]
     ELSE [c |-> w, disk |-> saveCacheToDisk(w), threw |-> FALSE]

\* clearCache()
clearCache ==
  LET w == [kind |-> "object", loaded |-> TRUE, mem |-> EmptyStore]
  IN [c |-> w, disk |-> saveCacheToDisk(w), threw |-> FALSE]

(* ----------------------- lib/api.ts: cache keys ------------------------- *)

\* An operation as the caller passes it.  search: options is the options
\* object; replies / user: arg is the tweet id / username and limit the second
\* argument (Undef when omitted).
SearchOp(options) == [options |-> options, type |-> "search", arg |-> <<>>, limit |-> Undef]
RepliesOp(tweetId, limit) == [options |-> <<>>, type |-> "replies", arg |-> tweetId, limit |-> limit]
UserOp(username, limit) == [options |-> <<>>, type |-> "user", arg |-> username, limit |-> limit]

\* The limit the function body sees: `limit = 10` in the destructuring
\* (search) or in the parameter list (replies, user).
EffectiveLimit(op) ==
  WithDefault(IF op.type = "search" THEN Get(op.options, "limit") ELSE op.limit,
              Num(DefaultLimit)).n

\* `sort = 'popular'` in the destructuring.
EffectiveSort(op) == WithDefault(Get(op.options, "sort"), Str(S_popular)).s

\* `search:${JSON.stringify(options)}`: the options as passed, not the
\* destructured values.
SearchKey(options) ==
  [text |-> <<>>, tag |-> "search", json |-> JsonStringifyObject(options)]

\* `replies:${tweetId}:${limit}`
RepliesKey(tweetId, limit) ==
  [text |-> tweetId \o S_colon \o NumToString(limit), tag |-> "replies", json |-> <<>>]

\* `user:${username.toLowerCase()}:${limit}`
UserKey(username, limit) ==
  [text |-> ToLowerCase(username) \o S_colon \o NumToString(limit), tag |-> "user",
   json |-> <<>>]

CacheKey(op) ==
  CASE op.type = "search" -> SearchKey(op.options)
    [] op.type = "replies" -> RepliesKey(op.arg, EffectiveLimit(op))
    [] OTHER -> UserKey(op.arg, EffectiveLimit(op))

(* ----------------------- lib/api.ts: records --------------------------- *)

S_urlBase == <<104, 116, 116, 112, 115, 58, 47, 47, 116, 119, 105, 116, 116, 101,
               114, 46, 99, 111, 109, 47>>                  \* "https://twitter.com/"
S_status == <<47, 115, 116, 97, 116, 117, 115, 47>>          \* "/status/"

\* The url built from the author's id instead of the username.
TweetUrlOfId(username, id) == S_urlBase \o id \o S_status \o id

\* `https://twitter.com/${username}/status/${id}`
TweetUrl(username, id) == S_urlBase \o username \o S_status \o id

\* x || 0 for a number that may be missing.
OrZero(v) == IF Truthy(v) THEN v.n ELSE 0

\* parseTweet(tweetData, userData)
parseTweet(tweetData, userData) ==
  LET m == tweetData.public_metrics
      author == [name |-> userData.name, username |-> userData.username,
                 id |-> userData.id,
                 verified |-> Truthy(userData.verified),
                 followers_count |-> OrZero(userData.followers_count)]
  IN [text |-> tweetData.text,
      created_at |-> NewDate(tweetData.created_at),
      id |-> tweetData.id,
      author |-> author,
      metrics |-> [replies |-> OrZero(m.reply_count), likes |-> OrZero(m.like_count),
                   retweets |-> OrZero(m.retweet_count), views |-> OrZero(m.impression_count)],
      url |-> TweetUrl(author.username, tweetData.id),
      conversation_id |-> tweetData.conversation_id,
      in_reply_to_id |-> tweetData.in_reply_to_user_id,
      lang |-> tweetData.lang]

\* The cached records returned as stored, created_at not made a Date again.
RehydrateAsStored(data) == data

\* cached.map((t) => ({ ...t, created_at: new Date(t.created_at) }))
Rehydrate(data) ==
  [i \in DOMAIN data |-> [data[i] EXCEPT !.created_at = NewDate(data[i].created_at)]]

\* An insertion that is not stable: a record goes before the records that have
\* exactly its likes.
RECURSIVE InsertByLikesUnstable(_, _)
InsertByLikesUnstable(sorted, tw) ==
  IF sorted = <<>> THEN <<tw>>
  ELSE IF Head(sorted).metrics.likes > tw.metrics.likes
       THEN <<Head(sorted)>> \o InsertByLikesUnstable(Tail(sorted), tw)
       ELSE <<tw>> \o sorted

\* Array.prototype.sort((a, b) => b.metrics.likes - a.metrics.likes): stable,
\* so each record goes behind the records that have at least its likes.
RECURSIVE InsertByLikes(_, _)
InsertByLikes(sorted, tw) ==
  IF sorted = <<>> THEN <<tw>>
  ELSE IF Head(sorted).metrics.likes >= tw.metrics.likes
       THEN <<Head(sorted)>> \o InsertByLikes(Tail(sorted), tw)
       ELSE <<tw>> \o sorted

RECURSIVE SortByLikes(_)
SortByLikes(tweets) ==
  IF tweets = <<>> THEN <<>>
  ELSE InsertByLikes(SortByLikes(SubSeq(tweets, 1, Len(tweets) - 1)), tweets[Len(tweets)])

\* A slice that takes a negative end as 0.
Slice0FromStartOnly(seq, end) ==
  SubSeq(seq, 1, IF end < 0 THEN 0 ELSE IF end > Len(seq) THEN Len(seq) ELSE end)

\* Array.prototype.slice(0, end): a negative end counts from the end.
Slice0(seq, end) ==
  LET e == IF end < 0 THEN (IF Len(seq) + end < 0 THEN 0 ELSE Len(seq) + end)
           ELSE (IF end > Len(seq) THEN Len(seq) ELSE end)
  IN SubSeq(seq, 1, e)

\* Math.min(limit, 100): no lower bound.
ClampLimitUpperOnly(limit, lo) == IF limit < 100 THEN limit ELSE 100

\* Math.min(Math.max(limit, lo), 100)
ClampLimit(limit, lo) ==
  LET a == IF limit > lo THEN limit ELSE lo IN IF a < 100 THEN a ELSE 100

(* --------------------------- lib/mock-data.ts --------------------------- *)

\* MOCK_USERS (elonmusk, sama, karpathy, naval, paulg, lexfridman, techcrunch,
\* anotheruser), indexed from 1 here and from 0 in the source.
MOCK_USERS ==
  << [name |-> <<69, 108, 111, 110, 32, 77, 117, 115, 107>>, username |-> <<101, 108, 111, 110, 109, 117, 115, 107>>, id |-> <<49>>,
     verified |-> TRUE, followers_count |-> 170000000],
     [name |-> <<83, 97, 109, 32, 65, 108, 116, 109, 97, 110>>, username |-> <<115, 97, 109, 97>>, id |-> <<50>>,
     verified |-> TRUE, followers_count |-> 3200000],
     [name |-> <<65, 110, 100, 114, 101, 106, 32, 75, 97, 114, 112, 97, 116, 104, 121>>, username |-> <<107, 97, 114, 112, 97, 116, 104, 121>>, id |-> <<51>>,
     verified |-> TRUE, followers_count |-> 850000],
     [name |-> <<78, 97, 118, 97, 108>>, username |-> <<110, 97, 118, 97, 108>>, id |-> <<52>>,
     verified |-> TRUE, followers_count |-> 2100000],
     [name |-> <<80, 97, 117, 108, 32, 71, 114, 97, 104, 97, 109>>, username |-> <<112, 97, 117, 108, 103>>, id |-> <<53>>,
     verified |-> TRUE, followers_count |-> 1600000],
     [name |-> <<76, 101, 120, 32, 70, 114, 105, 100, 109, 97, 110>>, username |-> <<108, 101, 120, 102, 114, 105, 100, 109, 97, 110>>, id |-> <<54>>,
     verified |-> TRUE, followers_count |-> 3800000],
     [name |-> <<84, 101, 99, 104, 67, 114, 117, 110, 99, 104>>, username |-> <<116, 101, 99, 104, 99, 114, 117, 110, 99, 104>>, id |-> <<55>>,
     verified |-> TRUE, followers_count |-> 12400000],
     [name |-> <<84, 101, 99, 104, 32, 69, 110, 116, 104, 117, 115, 105, 97, 115, 116>>, username |-> <<97, 110, 111, 116, 104, 101, 114, 117, 115, 101, 114>>, id |-> <<56>>,
     verified |-> FALSE, followers_count |-> 45000] >>

MOCK_TWEET_TEMPLATES ==
  << [text |-> "AI agents are going to change everything. The next generation of software will be autonomous and self-improving.",
     metrics |-> [replies |-> 3400, likes |-> 45200, retweets |-> 12100, views |-> 2100000]],
     [text |-> "Just shipped a major update. The feedback loop between building and learning is everything.",
     metrics |-> [replies |-> 890, likes |-> 18500, retweets |-> 2300, views |-> 650000]],
     [text |-> "The best time to start building was yesterday. The second best time is now. Stop planning, start doing.",
     metrics |-> [replies |-> 1200, likes |-> 32100, retweets |-> 8900, views |-> 1800000]],
     [text |-> "Hot take: Most \"AI startups\" are just wrappers around GPT-4. The real innovation is in the infrastructure layer.",
     metrics |-> [replies |-> 780, likes |-> 8900, retweets |-> 2100, views |-> 420000]],
     [text |-> "Simplicity is the ultimate sophistication. Ship the MVP, gather feedback, iterate. Repeat forever.",
     metrics |-> [replies |-> 450, likes |-> 15600, retweets |-> 3400, views |-> 890000]],
     [text |-> "The terminal is making a comeback. CLI tools are faster, scriptable, and composable. GUIs are overrated.",
     metrics |-> [replies |-> 340, likes |-> 6700, retweets |-> 1200, views |-> 280000]],
     [text |-> "Reading code is more important than writing code. You learn patterns, avoid mistakes, and understand systems deeply.",
     metrics |-> [replies |-> 520, likes |-> 12300, retweets |-> 2800, views |-> 560000]],
     [text |-> "Open source is eating the world. The best software is built in public by passionate communities.",
     metrics |-> [replies |-> 980, likes |-> 21400, retweets |-> 5600, views |-> 1200000]],
     [text |-> "Working on something new. Can't share details yet but it's going to be transformative. Stay tuned.",
     metrics |-> [replies |-> 4100, likes |-> 54000, retweets |-> 8200, views |-> 3500000]] >>

\* replyTemplates of generateMockReplies; the third text is three fire emoji.
replyTemplates ==
  << [text |-> "This is absolutely right. Been saying this for years.",
     metrics |-> [replies |-> 12, likes |-> 450, retweets |-> 23, views |-> 8500]],
     [text |-> "I disagree. Here's why...",
     metrics |-> [replies |-> 45, likes |-> 120, retweets |-> 8, views |-> 3200]],
     [text |-> "(three fire emoji)",
     metrics |-> [replies |-> 5, likes |-> 890, retweets |-> 12, views |-> 12000]],
     [text |-> "Can you elaborate on this point?",
     metrics |-> [replies |-> 8, likes |-> 67, retweets |-> 2, views |-> 1800]],
     [text |-> "Bookmarked. This is gold.",
     metrics |-> [replies |-> 3, likes |-> 234, retweets |-> 15, views |-> 4500]],
     [text |-> "The nuance here is important. Most people miss it.",
     metrics |-> [replies |-> 18, likes |-> 340, retweets |-> 28, views |-> 6200]],
     [text |-> "Hard agree. Building in public changed everything for me.",
     metrics |-> [replies |-> 7, likes |-> 156, retweets |-> 9, views |-> 2900]],
     [text |-> "This didn't age well lol",
     metrics |-> [replies |-> 22, likes |-> 78, retweets |-> 4, views |-> 2100]] >>

MsPerHour == 60 * 60 * 1000

S_999 == <<57, 57, 57>>                                  \* "999"

\* One call's draws of Math.random(): draw i gives the id of record i
\* (generateMockId: the decimal string of a random integer) and the fraction
\* of the recency window it lies back (randomDate), in halves.
Draw(id, half) == [id |-> id, half |-> half]

generateMockId(d) == NumToString(d.id)

\* randomDate(hoursAgo): new Date(Date.now() - Math.random() * hoursAgo * 3600000)
randomDate(hoursAgo, t, d) == DateOf(t - d.half * hoursAgo * (MsPerHour \div 2))

\* hashString: the sum of the code units.
RECURSIVE hashString(_)
hashString(str) == IF str = <<>> THEN 0 ELSE Head(str) + hashString(Tail(str))

\* The loop bound one short of the pool: Math.min(limit, pool.length - 1).
LoopBoundShort(limit, n) == IF limit < n - 1 THEN limit ELSE n - 1

\* Math.min(limit, pool.length), the loop bound of the three generators.
LoopBound(limit, n) == IF limit < n THEN limit ELSE n

\* The while loop of generateMockTweets: step past templates already used.
RECURSIVE NextUnused(_, _)
NextUnused(idx, used) ==
  IF idx \in used /\ Cardinality(used) < Len(MOCK_TWEET_TEMPLATES)
  THEN NextUnused((idx + 1) % Len(MOCK_TWEET_TEMPLATES), used)
  ELSE idx

\* The loop of generateMockTweets with the author picked by the random draw
\* instead of the seed.
RECURSIVE MockTweetsFromRandomUser(_, _, _, _, _, _, _)
MockTweetsFromRandomUser(i, bound, seed, used, hoursAgo, t, rnd) ==
  IF i >= bound THEN <<>>
  ELSE LET templateIdx == NextUnused((seed + i * 7) % Len(MOCK_TWEET_TEMPLATES), used)
           template == MOCK_TWEET_TEMPLATES[templateIdx + 1]
           user == MOCK_USERS[((rnd[i + 1].id + i * 3) % Len(MOCK_USERS)) + 1]
           tweetId == generateMockId(rnd[i + 1])
       IN << [text |-> template.text, created_at |-> randomDate(hoursAgo, t, rnd[i + 1]), id |-> tweetId,
              author |-> user,
              metrics |-> template.metrics,
              url |-> TweetUrl(user.username, tweetId),
              conversation_id |-> Undef, in_reply_to_id |-> Undef, lang |-> Undef] >>
          \o MockTweetsFromRandomUser(i + 1, bound, seed, used \cup {templateIdx}, hoursAgo, t, rnd)

\* Iterations i, i+1, ... of the for loop of generateMockTweets.
RECURSIVE MockTweetsFrom(_, _, _, _, _, _, _)
MockTweetsFrom(i, bound, seed, used, hoursAgo, t, rnd) ==
  IF i >= bound THEN <<>>
  ELSE LET templateIdx == NextUnused((seed + i * 7) % Len(MOCK_TWEET_TEMPLATES), used)
           template == MOCK_TWEET_TEMPLATES[templateIdx + 1]
           user == MOCK_USERS[((seed + i * 3) % Len(MOCK_USERS)) + 1]
           tweetId == generateMockId(rnd[i + 1])
       IN << [text |-> template.text, created_at |-> randomDate(hoursAgo, t, rnd[i + 1]), id |-> tweetId,
              author |-> user,
              metrics |-> template.metrics,
              url |-> TweetUrl(user.username, tweetId),
              conversation_id |-> Undef, in_reply_to_id |-> Undef, lang |-> Undef] >>
          \o MockTweetsFrom(i + 1, bound, seed, used \cup {templateIdx}, hoursAgo, t, rnd)

generateMockTweets(query, limit, hoursAgo, t, rnd) ==
  SortByLikes(MockTweetsFrom(0, LoopBound(limit, Len(MOCK_TWEET_TEMPLATES)),
                             hashString(query), {}, hoursAgo, t, rnd))

RECURSIVE MockRepliesFrom(_, _, _, _, _)
MockRepliesFrom(i, bound, tweetId, t, rnd) ==
  IF i >= bound THEN <<>>
  ELSE LET template == replyTemplates[i + 1]
           user == MOCK_USERS[((i + 3) % Len(MOCK_USERS)) + 1]
           replyId == generateMockId(rnd[i + 1])
       IN << [text |-> template.text, created_at |-> randomDate(48, t, rnd[i + 1]), id |-> replyId,
              author |-> user,
              metrics |-> template.metrics,
              url |-> TweetUrl(user.username, replyId),
              conversation_id |-> Undef, in_reply_to_id |-> Str(tweetId), lang |-> Undef] >>
          \o MockRepliesFrom(i + 1, bound, tweetId, t, rnd)

generateMockReplies(tweetId, limit, t, rnd) ==
  SortByLikes(MockRepliesFrom(0, LoopBound(limit, Len(replyTemplates)), tweetId, t, rnd))

\* String.prototype.toUpperCase on the ASCII range.
ToUpperCase(s) ==
  [i \in DOMAIN s |-> IF s[i] >= 97 /\ s[i] <= 122 THEN s[i] - 32 ELSE s[i]]

\* username.charAt(0).toUpperCase() + username.slice(1)
Capitalize(s) == IF s = <<>> THEN <<>> ELSE ToUpperCase(<<Head(s)>>) \o Tail(s)

\* The author without the lookup: always the synthesized user.
MockUserSynthesized(username) ==
  [name |-> Capitalize(username), username |-> username, id |-> S_999,
   verified |-> FALSE, followers_count |-> 1000]

\* MOCK_USERS.find(u => u.username.toLowerCase() === username.toLowerCase()) ?? {...}
MockUserFor(username) ==
  LET found == {i \in DOMAIN MOCK_USERS :
                  ToLowerCase(MOCK_USERS[i].username) = ToLowerCase(username)}
  IN IF found # {}
     THEN MOCK_USERS[CHOOSE i \in found : \A j \in found : i <= j]
     ELSE [name |-> Capitalize(username), username |-> username, id |-> S_999,
           verified |-> FALSE, followers_count |-> 1000]

RECURSIVE MockUserTweetsFrom(_, _, _, _, _)
MockUserTweetsFrom(i, bound, user, t, rnd) ==
  IF i >= bound THEN <<>>
  ELSE LET template == MOCK_TWEET_TEMPLATES[i + 1]
           tweetId == generateMockId(rnd[i + 1])
       IN << [text |-> template.text, created_at |-> randomDate(DefaultHours, t, rnd[i + 1]), id |-> tweetId,
              author |-> user,
              metrics |-> template.metrics,
              url |-> TweetUrl(user.username, tweetId),
              conversation_id |-> Undef, in_reply_to_id |-> Undef, lang |-> Undef] >>
          \o MockUserTweetsFrom(i + 1, bound, user, t, rnd)

generateMockUserTweets(username, limit, t, rnd) ==
  SortByLikes(MockUserTweetsFrom(0, LoopBound(limit, Len(MOCK_TWEET_TEMPLATES)),
                                 MockUserFor(username), t, rnd))

(* ---------------------- lib/api.ts: the request ------------------------- *)

S_24h == <<50, 52, 104>>                                 \* "24h"
S_7d == <<55, 100>>                                      \* "7d"
S_30d == <<51, 48, 100>>                                 \* "30d"

\* hoursMap[time], undefined (0 here) for a key it does not hold.
hoursMap(time) ==
  CASE time = S_1h -> 1
    [] time = S_24h -> 24
    [] time = S_7d -> 168
    [] time = S_30d -> 720
    [] OTHER -> 0

\* time ? hoursMap[time] || 168 : 168
MockHours(time) ==
  IF Truthy(time) /\ hoursMap(time.s) # 0 THEN hoursMap(time.s) ELSE DefaultHours

\* parseInt(s, 10) of a string of decimal digits.
RECURSIVE ParseInt(_)
ParseInt(str) ==
  IF str = <<>> THEN 0 ELSE ParseInt(SubSeq(str, 1, Len(str) - 1)) * 10 + (str[Len(str)] - 48)

NoRateLimit == [limit |-> 0, present |-> FALSE, remaining |-> 0, resetAt |-> NoDate]

NoHeaders == [limit |-> Undef, remaining |-> Undef, reset |-> Undef]

\* parseRateLimits: all three headers or nothing.
parseRateLimits(headers) ==
  IF Truthy(headers.remaining) /\ Truthy(headers.limit) /\ Truthy(headers.reset)
  THEN [limit |-> ParseInt(headers.limit.s), present |-> TRUE,
        remaining |-> ParseInt(headers.remaining.s),
        resetAt |-> DateOf(ParseInt(headers.reset.s) * 1000)]
  ELSE NoRateLimit

\* What the network gives back for one request: a transport error, a timeout
\* (no response within 30 s), or an HTTP response with a status, a body that
\* JSON.parse accepts or not, and headers.  `shape` is the body's data
\* property: "absent", "list" (an array, in data), "object" (in user).
TransportError == "error"
Timeout == "timeout"
Http == "http"

\* request(path, bearerToken): the promise's outcome for a response.
request(resp) ==
  CASE resp.kind = TransportError -> [ok |-> FALSE, error |-> "Network error"]
    [] resp.kind = Timeout -> [ok |-> FALSE, error |-> "Request timeout"]
    [] ~resp.parses -> [ok |-> FALSE, error |-> "Failed to parse API response"]
    [] resp.status >= 400 -> [ok |-> FALSE, error |-> "API error"]
    [] OTHER -> [ok |-> TRUE, error |-> ""]

\* The class of the object an operation rejects with.  request() and
\* getUserTweets build every error as `new Error(message)`; the one other
\* class is the TypeError the runtime throws.  No error carries a field besides
\* its message.
ErrorClass(res) == IF res.error = "TypeError" THEN "TypeError" ELSE "Error"

\* The user a record is given: the includes.users entry with the record's
\* author_id (the last one, as the Map keeps the last set), or the fallback.
UserOf(tweetData, users) ==
  LET hits == {i \in DOMAIN users : users[i].id = tweetData.author_id}
  IN IF hits # {}
     THEN users[CHOOSE i \in hits : \A j \in hits : i >= j]
     ELSE [name |-> <<85>> \o Tail(S_unknown), username |-> S_unknown,
           id |-> tweetData.author_id, verified |-> Bool(FALSE),
           followers_count |-> Undef]

\* apiResponse.data.map(tweet => parseTweet(tweet, usersMap.get(...) || {...}))
RECURSIVE ParseAll(_, _)
ParseAll(data, users) ==
  IF data = << >> THEN << >>
  ELSE << parseTweet(Head(data), UserOf(Head(data), users)) >>
         \o ParseAll(Tail(data), users)

\* tweetsApiResponse.data.map(tweet => parseTweet(tweet, userData))
RECURSIVE ParseAllAs(_, _)
ParseAllAs(data, userData) ==
  IF data = << >> THEN << >>
  ELSE << parseTweet(Head(data), userData) >> \o ParseAllAs(Tail(data), userData)

(* ------------------------------ inputs --------------------------------- *)

S_verifiedClause == <<32, 102, 105, 108, 116, 101, 114, 58, 118, 101, 114, 105, 102, 105, 101, 100>>   \* " filter:verified"
S_minFaves == <<32, 109, 105, 110, 95, 102, 97, 118, 101, 115, 58>>              \* " min_faves:"
S_minRetweets == <<32, 109, 105, 110, 95, 114, 101, 116, 119, 101, 101, 116, 115, 58>>        \* " min_retweets:"
S_langClause == <<32, 108, 97, 110, 103, 58>>                 \* " lang:"
S_123 == <<49, 50, 51>>                                  \* "123"
S_alice == <<97, 108, 105, 99, 101>>                     \* "alice"
S_Alice == <<65, 108, 105, 99, 101>>                     \* "Alice"
S_token == <<116, 111, 107>>                             \* "tok"
S_u11 == <<49, 49>>                                      \* "11"
S_u12 == <<49, 50>>                                      \* "12"

\* Options objects passed to searchTweets.  The last is the object the search
\* command builds: every property present, limit defaulted by the command.
SearchInputs ==
  { << Prop("query", Str(S_ai)) >>,
    << Prop("query", Str(S_ai)), Prop("limit", Num(DefaultLimit)),
       Prop("sort", Str(S_popular)) >>,
    << Prop("sort", Str(S_popular)), Prop("limit", Num(DefaultLimit)),
       Prop("query", Str(S_ai)) >>,
    << Prop("query", Str(S_ml)), Prop("time", Str(S_1h)), Prop("minLikes", Num(5)),
       Prop("limit", Num(1)), Prop("sort", Str(S_recent)) >> }

RepliesInputs == { RepliesOp(S_123, Undef), RepliesOp(S_123, Num(DefaultLimit)) }

UserInputs == { UserOp(S_Bob, Num(2)), UserOp(S_bob, Num(2)) }

Operations == {SearchOp(o) : o \in SearchInputs} \cup RepliesInputs \cup UserInputs

\* Math.random() streams of one call: nine draws.
RandStreams ==
  { << Draw(7, 0), Draw(7, 0), Draw(7, 0), Draw(7, 0), Draw(7, 0),
       Draw(7, 0), Draw(7, 0), Draw(7, 0), Draw(7, 0) >>,
    << Draw(41, 1), Draw(42, 1), Draw(43, 1), Draw(44, 1), Draw(45, 1),
       Draw(46, 1), Draw(47, 1), Draw(48, 1), Draw(49, 1) >> }

RawMetrics(likes, views) ==
  [reply_count |-> Undef, like_count |-> likes, retweet_count |-> Num(1),
   impression_count |-> views]

RawTweet(id, authorId, createdAt, likes) ==
  [text |-> "hello", created_at |-> createdAt, id |-> id, public_metrics |-> RawMetrics(likes, Num(100)),
   conversation_id |-> Undef, in_reply_to_user_id |-> Undef,
   lang |-> Undef, author_id |-> authorId]

RT1 == RawTweet(<<49, 48, 49>>, S_u11, IsoString(1), Num(5))
RT2 == RawTweet(<<49, 48, 50>>, S_u12, IsoString(2), Num(9))
\* The same likes as RT1.
RT3 == RawTweet(<<49, 48, 51>>, S_u11, IsoString(3), Num(5))

RU_alice ==
  [name |-> S_Alice, username |-> S_alice, id |-> S_u11, verified |-> Bool(TRUE),
   followers_count |-> Num(5)]

RateHeaders == [limit |-> Str(<<57>>), remaining |-> Str(<<55>>), reset |-> Str(<<54, 48>>)]

Failure(kind) ==
  [kind |-> kind, data |-> <<>>, user |-> RU_alice, headers |-> NoHeaders, parses |-> FALSE,
   status |-> 0, users |-> <<>>, shape |-> "absent"]

HttpResponse(status, parses, shape, data, headers) ==
  [kind |-> Http, data |-> data, user |-> RU_alice, headers |-> headers, parses |-> parses,
   status |-> status, users |-> << RU_alice >>, shape |-> shape]

\* Responses to a search, replies or timeline request.
ListResponses ==
  { Failure(TransportError), Failure(Timeout),
    HttpResponse(200, FALSE, "absent", <<>>, NoHeaders),
    HttpResponse(401, TRUE, "absent", <<>>, NoHeaders),
    HttpResponse(302, TRUE, "absent", <<>>, NoHeaders),
    HttpResponse(200, TRUE, "absent", <<>>, RateHeaders),
    HttpResponse(200, TRUE, "object", <<>>, NoHeaders),
    HttpResponse(200, TRUE, "list", <<>>, NoHeaders),
    HttpResponse(200, TRUE, "list", << RT1 >>, NoHeaders),
    HttpResponse(200, TRUE, "list", << RT3, RT2, RT1 >>, RateHeaders) }

\* Responses to the username lookup.
LookupResponses ==
  { Failure(TransportError),
    HttpResponse(404, TRUE, "absent", <<>>, NoHeaders),
    HttpResponse(200, TRUE, "absent", <<>>, NoHeaders),
    HttpResponse(200, TRUE, "object", <<>>, NoHeaders) }

\* Payloads and ttl arguments of direct setCache calls.
DirectPayloads == { <<>>, ParseAll(<< RT1 >>, << RU_alice >>) }
DirectTtls == { Undef, Num(1) }

\* Values `config set` stores.
ConfigValues ==
  { [key |-> "bearerToken", value |-> Str(S_token)],
    [key |-> "cacheEnabled", value |-> Bool(FALSE)],
    [key |-> "cacheTtlMinutes", value |-> Num(1)] }

(* ------------------------------- state --------------------------------- *)

VARIABLES
  env,          \* process.env.TWITTER_BEARER_TOKEN of the running process
  configFile,   \* ~/.twitter-cli/config.json
  cacheFile,    \* ~/.twitter-cli/cache.json
  memoryCache,  \* cache.ts: memoryCache of the running process
  cacheLoaded,  \* cache.ts: cacheLoaded of the running process
  memoryKind,   \* what memoryCache is: "object", or "null", "array", "scalar" as parsed
  now,          \* Date.now()
  pc,           \* "idle", or the request the running operation awaits
  op,           \* the operation running or last run
  req,          \* the request last sent
  response,     \* the response last received by the operation
  userData,     \* getUserTweets: the user the lookup returned
  result,       \* what the operation last run returned or threw
  got,          \* the last getCache call: what it found and what it returned
  counts,       \* cache reads, mock syntheses, requests, setCache calls of the operation
  prev,         \* the operation run immediately before this one, and its result
  quiet,        \* no time has passed and no setting has changed since the last return
  evicted,      \* the entries a read has found expired
  calls,        \* operations started
  direct,       \* direct cache calls made
  changes,      \* configuration changes made
  call,         \* a library function called on its own: its arguments and what it returned
  cmd,          \* the command line last run: its arguments, and the exit code once it has exited
  peer          \* memoryCache, cacheLoaded of a second process running at the same time

vars == << env, configFile, cacheFile, memoryCache, cacheLoaded, memoryKind, now, pc,
           op, req, response, userData, result, got, counts, prev, quiet, evicted, calls,
           direct, changes, call, cmd, peer >>

ProcCache == [kind |-> memoryKind, loaded |-> cacheLoaded, mem |-> memoryCache]

\* The store as the running process sees it once it has loaded the file.
StoreView == loadCacheFromDisk(ProcCache, cacheFile).mem

NoOp == [options |-> <<>>, type |-> "none", arg |-> <<>>, limit |-> Undef]

NoResult ==
  [data |-> <<>>, error |-> "", status |-> "none", fromCache |-> FALSE,
   rateLimit |-> NoRateLimit]

\* { data, fromCache, rateLimit }
Returned(data, fromCache, rateLimit) ==
  [data |-> data, error |-> "", status |-> "ok", fromCache |-> fromCache,
   rateLimit |-> rateLimit]

\* The promise rejects: no value.
Rejected(message) ==
  [data |-> <<>>, error |-> message, status |-> "error", fromCache |-> FALSE,
   rateLimit |-> NoRateLimit]

NoRequest == [query |-> <<>>, endpoint |-> "none", max_results |-> 0, sort_order |-> "",
              start_time |-> NoDate]

NoResponse == Failure("none")

NoEntry == [data |-> <<>>, timestamp |-> 0, ttl |-> 0]

NoGot == [key |-> SearchKey(<<>>), entry |-> NoEntry, data |-> <<>>, hit |-> FALSE,
          threw |-> FALSE, present |-> FALSE, valid |-> FALSE, enabled |-> FALSE, demo |-> FALSE,
          at |-> 0]

NoCounts == [cacheReads |-> 0, mockCalls |-> 0, requests |-> 0, setCalls |-> 0]

NoPrev == [key |-> SearchKey(<<>>), op |-> NoOp, result |-> NoResult, counts |-> NoCounts,
           valid |-> FALSE]

\* A key a caller of the cache library passes as a plain string.
RawKey(text) == [text |-> text, tag |-> "", json |-> <<>>]

\* The cache of a process that has just started.
FreshCache == [kind |-> "object", loaded |-> FALSE, mem |-> EmptyStore]

\* No function has been called on its own.  For a cache call: key, data, ttl
\* are its arguments, at and cfg the time and the config file at the call, was
\* the process cache and the file before it, out what it left and whether it
\* threw, hit whether a getCache returned a payload.
NoCall == [key |-> RawKey(<<>>), data |-> <<>>, ttl |-> Undef, cfg |-> EmptyConfigFile, hit |-> FALSE,
           arg |-> <<>>, limit |-> 0, demo |-> FALSE, at |-> 0,
           fn |-> "none", first |-> <<>>, second |-> <<>>,
           token |-> Undef, csv |-> <<>>,
           was |-> [c |-> FreshCache, disk |-> NoFile],
           out |-> [c |-> FreshCache, disk |-> NoFile, threw |-> FALSE]]

\* No command has run.  name, arg, limit and mode are the command line (limit the
\* text after -n, or undefined), invalid whether its argument was refused,
\* exited and code the exit of the process.
\* For setup and `config set`: arg is the token typed or given, answer the reply to
\* the reconfigure prompt, source what getTokenSource returned, checked what
\* validateToken reported if it was called, before the config file and
\* envToken the environment's token when the command started.
NoCmd == [name |-> "none", invalid |-> FALSE, arg |-> <<>>, limit |-> Undef,
          mode |-> "pretty", exited |-> FALSE, code |-> 0,
          answer |-> <<>>, source |-> "none", checked |-> "none",
          before |-> EmptyConfigFile, envToken |-> Undef]

EnvTokens == {Undef, Str(S_token)}

Init ==
  /\ env \in EnvTokens
  /\ configFile = EmptyConfigFile
  /\ cacheFile = NoFile
  /\ memoryCache = EmptyStore
  /\ cacheLoaded = FALSE
  /\ memoryKind = "object"
  /\ now = 0
  /\ pc = "idle"
  /\ op = NoOp
  /\ req = NoRequest
  /\ response = NoResponse
  /\ userData = RU_alice
  /\ result = NoResult
  /\ got = NoGot
  /\ counts = NoCounts
  /\ prev = NoPrev
  /\ quiet = FALSE
  /\ evicted = {}
  /\ calls = 0
  /\ direct = 0
  /\ changes = 0
  /\ call = NoCall
  /\ cmd = NoCmd
  /\ peer = FreshCache

\* Everything but `cmd`.
programVarsOfCommand ==
  << env, configFile, cacheFile, memoryCache, cacheLoaded, memoryKind, now, pc, op, req,
     response, userData, result, got, counts, prev, quiet, evicted, calls, direct,
     changes, call, peer >>

(* ------------------------ the cache read of a call ----------------------- *)

\* The entries found expired so far, after a getCache(key) in this state.
EvictedAfter(key) ==
  IF isCacheEnabled(configFile) /\ key \in DOMAIN StoreView /\ Expired(StoreView[key], now)
  THEN evicted \cup {[key |-> key, timestamp |-> StoreView[key].timestamp]}
  ELSE evicted

\* The getCache(key) call g, as the state records it: the setting, the mode
\* and the store's entry for the key at the time of the call, and what the
\* call returned.
CacheRead(key, g) ==
  /\ got' = [key |-> key, entry |-> IF key \in DOMAIN StoreView THEN StoreView[key] ELSE NoEntry, data |-> g.data, hit |-> g.hit,
             threw |-> g.threw,
             present |-> key \in DOMAIN StoreView,
             valid |-> TRUE,
             enabled |-> isCacheEnabled(configFile),
             demo |-> isDemoMode(env, configFile),
             at |-> now]
  /\ evicted' = EvictedAfter(key)

\* The process cache becomes c; nothing is flushed.
KeepsCache(c) ==
  /\ memoryCache' = c.mem
  /\ cacheLoaded' = c.loaded
  /\ memoryKind' = c.kind
  /\ UNCHANGED cacheFile

\* The outcome w of a setCache, deleteCache or clearCache call.
Writes(w) ==
  /\ memoryCache' = w.c.mem
  /\ cacheLoaded' = w.c.loaded
  /\ memoryKind' = w.c.kind
  /\ cacheFile' = w.disk

\* An operation o with cache key `key` starts.
Started(o, key) ==
  /\ pc = "idle"
  /\ calls < MaxCalls
  /\ calls' = calls + 1
  /\ op' = o
  /\ response' = NoResponse
  /\ prev' = IF quiet
             THEN [key |-> got.key, op |-> op, result |-> result, counts |-> counts,
                   valid |-> TRUE]
             ELSE NoPrev
  /\ UNCHANGED << env, configFile, now, direct, changes, call >>

\* The operation returns or throws.
Completes(res) ==
  /\ pc' = "idle"
  /\ result' = res
  /\ quiet' = TRUE

\* The operation sends request r and awaits it; c counts what it did before.
Awaits(where, r, c) ==
  /\ pc' = where
  /\ req' = r
  /\ result' = NoResult
  /\ quiet' = FALSE
  /\ counts' = [c EXCEPT !.requests = @ + 1]

\* The demo-mode test placed before the cache lookup's result is used.
PathDemoFirst(g) ==
  IF g.threw THEN "throws"
  ELSE IF isDemoMode(env, configFile) THEN "mock"
  ELSE IF g.hit THEN "cache" ELSE "network"

\* The order of the three paths: the cache hit first, then demo mode; none of
\* them when getCache threw.
Path(g) ==
  IF g.threw THEN "throws"
  ELSE IF g.hit THEN "cache"
  ELSE IF isDemoMode(env, configFile) THEN "mock" ELSE "network"

\* getCache threw: the operation rejects with the TypeError, nothing else done.
Throws(g) ==
  /\ Completes(Rejected("TypeError"))
  /\ counts' = [NoCounts EXCEPT !.cacheReads = 1]
  /\ KeepsCache(g.c)
  /\ UNCHANGED << req, userData >>

\* if (cached) return { data: cached.map(...), fromCache: true }
ReturnsCached(g) ==
  /\ Completes(Returned(Rehydrate(g.data), TRUE, NoRateLimit))
  /\ counts' = [NoCounts EXCEPT !.cacheReads = 1]
  /\ KeepsCache(g.c)
  /\ UNCHANGED << req, userData >>

\* The mock result written to the cache like a network result.
ReturnsMockCached(key, g, data) ==
  /\ Completes(Returned(data, FALSE, NoRateLimit))
  /\ counts' = [NoCounts EXCEPT !.cacheReads = 1, !.mockCalls = 1, !.setCalls = 1]
  /\ Writes(setCache(g.c, cacheFile, configFile, now, key, data, Undef))
  /\ UNCHANGED << req, userData >>

\* The demo-mode test placed after the request has been sent.
ReturnsMockAfterRequest(key, g, data) ==
  /\ Completes(Returned(data, FALSE, NoRateLimit))
  /\ counts' = [NoCounts EXCEPT !.cacheReads = 1, !.mockCalls = 1, !.requests = 1]
  /\ KeepsCache(g.c)
  /\ UNCHANGED << req, userData >>

\* if (isDemoMode()) return { data: generateMock...(...), fromCache: false }
ReturnsMock(key, g, data) ==
  /\ Completes(Returned(data, FALSE, NoRateLimit))
  /\ counts' = [NoCounts EXCEPT !.cacheReads = 1, !.mockCalls = 1]
  /\ KeepsCache(g.c)
  /\ UNCHANGED << req, userData >>

\* The first request of the network path is sent.
SendsFirst(where, r, g) ==
  /\ Awaits(where, r, [NoCounts EXCEPT !.cacheReads = 1])
  /\ KeepsCache(g.c)
  /\ UNCHANGED userData

\* From the response to a search, replies or timeline request to the return;
\* `tweets` is the list the operation builds from a response with a data list.
HandlesList(resp, tweets) ==
  LET r == request(resp)
      w == setCache(ProcCache, cacheFile, configFile, now, CacheKey(op), tweets, Undef)
  IN /\ response' = resp
     /\ UNCHANGED << env, configFile, now, op, req, userData, got, prev, evicted,
                     calls, direct, changes, call >>
     /\ \/ /\ ~r.ok
           /\ Completes(Rejected(r.error))
           /\ UNCHANGED << cacheFile, memoryCache, cacheLoaded, memoryKind, counts >>
        \/ /\ r.ok
           /\ resp.shape = "absent"
           /\ Completes(Returned(<<>>, FALSE, parseRateLimits(resp.headers)))
           /\ UNCHANGED << cacheFile, memoryCache, cacheLoaded, memoryKind, counts >>
        \/ /\ r.ok
           /\ resp.shape = "object"
           /\ Completes(Rejected("TypeError"))
           /\ UNCHANGED << cacheFile, memoryCache, cacheLoaded, memoryKind, counts >>
        \/ /\ r.ok
           /\ resp.shape = "list"
           /\ Writes(w)
           /\ counts' = [counts EXCEPT !.setCalls = @ + 1]
           /\ Completes(IF w.threw THEN Rejected("TypeError")
                        ELSE Returned(tweets, FALSE, parseRateLimits(resp.headers)))

(* --------------------------- searchTweets ------------------------------- *)

\* The query text sent: the filter clauses appended to the query.
SearchQuery(options) ==
  Get(options, "query").s
  \o (IF Truthy(Get(options, "verified")) THEN S_verifiedClause ELSE <<>>)
  \o (IF Truthy(Get(options, "minLikes"))
      THEN S_minFaves \o Interpolate(Get(options, "minLikes")) ELSE <<>>)
  \o (IF Truthy(Get(options, "minRetweets"))
      THEN S_minRetweets \o Interpolate(Get(options, "minRetweets")) ELSE <<>>)
  \o (IF Truthy(Get(options, "lang"))
      THEN S_langClause \o Interpolate(Get(options, "lang")) ELSE <<>>)

\* getStartTime(time)
getStartTime(time, t) ==
  IF ~Truthy(time) \/ hoursMap(time.s) = 0 THEN NoDate
  ELSE IsoString(t - hoursMap(time.s) * MsPerHour)

SearchRequest(o, t) ==
  [query |-> SearchQuery(o.options), endpoint |-> "search",
   max_results |-> ClampLimit(EffectiveLimit(o), 10),
   sort_order |-> IF EffectiveSort(o) = S_recent THEN "recency" ELSE "relevancy",
   start_time |-> getStartTime(Get(o.options, "time"), t)]

\* searchTweets(options), up to its return or its await.
searchTweets(options) ==
  LET o == SearchOp(options)
      cacheKey == SearchKey(options)
      g == getCache(ProcCache, cacheFile, configFile, now, cacheKey)
  IN /\ Started(o, cacheKey)
     /\ CacheRead(cacheKey, g)
     /\ \/ /\ Path(g) = "throws"
           /\ Throws(g)
        \/ /\ Path(g) = "cache"
           /\ ReturnsCached(g)
        \/ /\ Path(g) = "mock"
           /\ \E rnd \in RandStreams :
                ReturnsMock(cacheKey, g,
                            generateMockTweets(Get(options, "query").s, EffectiveLimit(o),
                                               MockHours(Get(options, "time")), now, rnd))
        \/ /\ Path(g) = "network"
           /\ SendsFirst("search", SearchRequest(o, now), g)

\* searchTweets from the response to its return.
searchTweetsResponse(resp) ==
  LET parsed == ParseAll(resp.data, resp.users)
      sorted == IF EffectiveSort(op) = S_popular THEN SortByLikes(parsed) ELSE parsed
  IN /\ pc = "search"
     /\ HandlesList(resp, Slice0(sorted, EffectiveLimit(op)))

(* ----------------------------- getReplies ------------------------------- *)

S_conversation == <<99, 111, 110, 118, 101, 114, 115, 97, 116, 105, 111, 110, 95, 105,
                    100, 58>>                             \* "conversation_id:"

RepliesRequest(o) ==
  [query |-> S_conversation \o o.arg, endpoint |-> "search",
   max_results |-> ClampLimit(EffectiveLimit(o), 10), sort_order |-> "",
   start_time |-> NoDate]

\* getReplies(tweetId, limit), up to its return or its await.
getReplies(tweetId, limit) ==
  LET o == RepliesOp(tweetId, limit)
      cacheKey == RepliesKey(tweetId, EffectiveLimit(o))
      g == getCache(ProcCache, cacheFile, configFile, now, cacheKey)
  IN /\ Started(o, cacheKey)
     /\ CacheRead(cacheKey, g)
     /\ \/ /\ Path(g) = "throws"
           /\ Throws(g)
        \/ /\ Path(g) = "cache"
           /\ ReturnsCached(g)
        \/ /\ Path(g) = "mock"
           /\ \E rnd \in RandStreams :
                ReturnsMock(cacheKey, g,
                            generateMockReplies(tweetId, EffectiveLimit(o), now, rnd))
        \/ /\ Path(g) = "network"
           /\ SendsFirst("replies", RepliesRequest(o), g)

\* getReplies from the response to its return.
getRepliesResponse(resp) ==
  /\ pc = "replies"
  /\ HandlesList(resp, Slice0(SortByLikes(ParseAll(resp.data, resp.users)),
                              EffectiveLimit(op)))

(* ---------------------------- getUserTweets ----------------------------- *)

LookupRequest(o) ==
  [query |-> o.arg, endpoint |-> "userLookup", max_results |-> 0, sort_order |-> "",
   start_time |-> NoDate]

TimelineRequest(o, user) ==
  [query |-> user.id, endpoint |-> "timeline",
   max_results |-> ClampLimit(EffectiveLimit(o), 5), sort_order |-> "",
   start_time |-> NoDate]

\* getUserTweets(username, limit), up to its return or its first await.
getUserTweets(username, limit) ==
  LET o == UserOp(username, limit)
      cacheKey == UserKey(username, EffectiveLimit(o))
      g == getCache(ProcCache, cacheFile, configFile, now, cacheKey)
  IN /\ Started(o, cacheKey)
     /\ CacheRead(cacheKey, g)
     /\ \/ /\ Path(g) = "throws"
           /\ Throws(g)
        \/ /\ Path(g) = "cache"
           /\ ReturnsCached(g)
        \/ /\ Path(g) = "mock"
           /\ \E rnd \in RandStreams :
                ReturnsMock(cacheKey, g,
                            generateMockUserTweets(username, EffectiveLimit(o), now, rnd))
        \/ /\ Path(g) = "network"
           /\ SendsFirst("userLookup", LookupRequest(o), g)

\* The lookup without `if (!userApiResponse.data) throw`: a response with no
\* user ends the operation with an empty list.
getUserTweetsLookupEmpty(resp) ==
  LET r == request(resp)
  IN /\ pc = "userLookup"
     /\ response' = resp
     /\ UNCHANGED << env, configFile, cacheFile, memoryCache, cacheLoaded, memoryKind,
                     now, op, got,
                     prev, evicted, calls, direct, changes, call >>
     /\ \/ /\ ~r.ok
           /\ Completes(Rejected(r.error))
           /\ UNCHANGED << req, userData, counts >>
        \/ /\ r.ok
           /\ resp.shape = "absent"
           /\ Completes(Returned(<<>>, FALSE, NoRateLimit))
           /\ UNCHANGED << req, userData, counts >>
        \/ /\ r.ok
           /\ resp.shape = "object"
           /\ userData' = resp.user
           /\ Awaits("userTweets", TimelineRequest(op, resp.user), counts)

\* getUserTweets from the lookup's response to the timeline request.
getUserTweetsLookupResponse(resp) ==
  LET r == request(resp)
  IN /\ pc = "userLookup"
     /\ response' = resp
     /\ UNCHANGED << env, configFile, cacheFile, memoryCache, cacheLoaded, memoryKind,
                     now, op, got,
                     prev, evicted, calls, direct, changes, call >>
     /\ \/ /\ ~r.ok
           /\ Completes(Rejected(r.error))
           /\ UNCHANGED << req, userData, counts >>
        \/ /\ r.ok
           /\ resp.shape = "absent"
           /\ Completes(Rejected("User not found"))
           /\ UNCHANGED << req, userData, counts >>
        \/ /\ r.ok
           /\ resp.shape = "object"
           /\ userData' = resp.user
           /\ Awaits("userTweets", TimelineRequest(op, resp.user), counts)

\* getUserTweets from the timeline's response to its return.
getUserTweetsResponse(resp) ==
  /\ pc = "userTweets"
  /\ HandlesList(resp, Slice0(SortByLikes(ParseAllAs(resp.data, userData)),
                              EffectiveLimit(op)))

(* ---------------- direct cache calls, configuration, time --------------- *)

\* The keys of direct cache calls: two keys of the operations.
DirectKeys == {RepliesKey(S_123, DefaultLimit), UserKey(S_bob, 2)}

Direct ==
  /\ pc = "idle"
  /\ direct < MaxDirect
  /\ direct' = direct + 1
  /\ quiet' = FALSE
  /\ UNCHANGED << env, configFile, now, pc, op, req, response, userData, result, counts,
                  prev, calls, changes, call, cmd, peer >>

\* A caller of the library reads the cache.
GetCacheCall(key) ==
  LET g == getCache(ProcCache, cacheFile, configFile, now, key)
  IN /\ Direct
     /\ CacheRead(key, g)
     /\ KeepsCache(g.c)

\* A caller of the library writes the cache.
SetCacheCall(key, data, ttl) ==
  /\ Direct
  /\ Writes(setCache(ProcCache, cacheFile, configFile, now, key, data, ttl))
  /\ UNCHANGED << got, evicted >>

DeleteCacheCall(key) ==
  /\ Direct
  /\ Writes(deleteCache(ProcCache, cacheFile, key))
  /\ UNCHANGED << got, evicted >>

\* `cache clear`
ClearCacheCall ==
  /\ Direct
  /\ Writes(clearCache)
  /\ UNCHANGED << got, evicted >>

\* `config set <key> <value>`: loadConfig, assign, saveConfig.
ConfigSet(cv) ==
  /\ pc = "idle"
  /\ changes < MaxConfig
  /\ changes' = changes + 1
  /\ configFile' = [loadConfig(configFile) EXCEPT ![cv.key] = cv.value]
  /\ quiet' = FALSE
  /\ UNCHANGED << env, cacheFile, memoryCache, cacheLoaded, memoryKind, now, pc, op, req,
                  response,
                  userData, result, got, counts, prev, evicted, calls, direct, call, cmd, peer >>

\* The process exits and the next command starts a new one, with the
\* environment it is given.
Restart ==
  /\ pc = "idle"
  /\ cacheLoaded \/ memoryCache # EmptyStore
  /\ env' \in EnvTokens
  /\ memoryCache' = EmptyStore
  /\ cacheLoaded' = FALSE
  /\ memoryKind' = "object"
  /\ UNCHANGED << configFile, cacheFile, now, pc, op, req, response, userData, result,
                  got, counts, prev, quiet, evicted, calls, direct, changes, call, cmd, peer >>

\* Time passes.
Tick(d) ==
  /\ now + d <= MaxNow
  /\ now' = now + d
  /\ quiet' = FALSE
  /\ UNCHANGED << env, configFile, cacheFile, memoryCache, cacheLoaded, memoryKind, pc,
                  op, req,
                  response, userData, result, got, counts, prev, evicted, calls, direct,
                  changes, call, cmd, peer >>

\* The commands: search, replies, user and `config set`, each in its process.
Next ==
  \/ \E options \in SearchInputs : searchTweets(options) /\ UNCHANGED << cmd, peer >>
  \/ \E resp \in ListResponses : searchTweetsResponse(resp) /\ UNCHANGED << cmd, peer >>
  \/ \E o \in RepliesInputs : getReplies(o.arg, o.limit) /\ UNCHANGED << cmd, peer >>
  \/ \E resp \in ListResponses : getRepliesResponse(resp) /\ UNCHANGED << cmd, peer >>
  \/ \E o \in UserInputs : getUserTweets(o.arg, o.limit) /\ UNCHANGED << cmd, peer >>
  \/ \E resp \in LookupResponses : getUserTweetsLookupResponse(resp) /\ UNCHANGED << cmd, peer >>
  \/ \E resp \in ListResponses : getUserTweetsResponse(resp) /\ UNCHANGED << cmd, peer >>
  \/ \E cv \in ConfigValues : ConfigSet(cv)
  \/ Restart
  \/ Tick(MsPerMinute + 1)

Spec == Init /\ [][Next]_vars

\* The cache library called directly.
NextCache ==
  \/ \E key \in DirectKeys : GetCacheCall(key)
  \/ \E key \in DirectKeys, data \in DirectPayloads, ttl \in DirectTtls :
       SetCacheCall(key, data, ttl)
  \/ \E key \in DirectKeys : DeleteCacheCall(key)
  \/ ClearCacheCall
  \/ \E cv \in ConfigValues : ConfigSet(cv)
  \/ Restart
  \/ now < MaxCacheNow /\ Tick(1)

SpecCache == Init /\ [][NextCache]_vars

(* ------------------ library functions called on their own --------------- *)

\* The largest limit passed to a mock generator.
MaxMockLimit == 11

S_ElonMusk == <<69, 108, 111, 110, 77, 117, 115, 107>>      \* "ElonMusk"
S_tok2 == <<116, 50>>                                      \* "t2"

\* Queries and usernames: the empty string, words, a pool member as the pool
\* spells it and in another case, and names the pool does not hold.
MockArgs ==
  { <<>>, S_ai, S_ml, S_Bob, S_bob, MOCK_USERS[1].username, S_ElonMusk,
    MOCK_USERS[8].username }

\* TWITTER_BEARER_TOKEN: not set, set to the empty string, set to a token.
CredentialEnvs == { Undef, Str(<<>>), Str(S_token) }

\* bearerToken of the config file: missing, empty, a token.
CredentialFiles ==
  { [EmptyConfigFile EXCEPT !.bearerToken = b] : b \in { Undef, Str(<<>>), Str(S_tok2) } }

\* Everything but `call`.
programVars ==
  << env, configFile, cacheFile, memoryCache, cacheLoaded, memoryKind, now, pc, op, req,
     response,
     userData, result, got, counts, prev, quiet, evicted, calls, direct, changes, cmd, peer >>

InitPure ==
  /\ env \in CredentialEnvs
  /\ configFile \in CredentialFiles
  /\ cacheFile = NoFile
  /\ memoryCache = EmptyStore
  /\ cacheLoaded = FALSE
  /\ memoryKind = "object"
  /\ now = 0
  /\ pc = "idle"
  /\ op = NoOp
  /\ req = NoRequest
  /\ response = NoResponse
  /\ userData = RU_alice
  /\ result = NoResult
  /\ got = NoGot
  /\ counts = NoCounts
  /\ prev = NoPrev
  /\ quiet = FALSE
  /\ evicted = {}
  /\ calls = 0
  /\ direct = 0
  /\ changes = 0
  /\ call \in { [NoCall EXCEPT !.arg = a, !.limit = l] : a \in MockArgs, l \in 1..MaxMockLimit }
  /\ cmd = NoCmd
  /\ peer = FreshCache

\* generateMockTweets(query, limit) called twice: two streams of Math.random().
MockTweetsCall ==
  /\ call.fn = "none"
  /\ \E rnd1, rnd2 \in RandStreams :
       call' = [call EXCEPT
                  !.fn = "generateMockTweets",
                  !.first = generateMockTweets(call.arg, call.limit, DefaultHours, now, rnd1),
                  !.second = generateMockTweets(call.arg, call.limit, DefaultHours, now, rnd2)]
  /\ UNCHANGED programVars

\* generateMockReplies(tweetId, limit) called twice.
MockRepliesCall ==
  /\ call.fn = "none"
  /\ \E rnd1, rnd2 \in RandStreams :
       call' = [call EXCEPT
                  !.fn = "generateMockReplies",
                  !.first = generateMockReplies(call.arg, call.limit, now, rnd1),
                  !.second = generateMockReplies(call.arg, call.limit, now, rnd2)]
  /\ UNCHANGED programVars

\* generateMockUserTweets(username, limit) called twice.
MockUserTweetsCall ==
  /\ call.fn = "none"
  /\ \E rnd1, rnd2 \in RandStreams :
       call' = [call EXCEPT
                  !.fn = "generateMockUserTweets",
                  !.first = generateMockUserTweets(call.arg, call.limit, now, rnd1),
                  !.second = generateMockUserTweets(call.arg, call.limit, now, rnd2)]
  /\ UNCHANGED programVars

\* getBearerToken() and isDemoMode() called.
CredentialCall ==
  /\ call.fn = "none"
  /\ call' = [call EXCEPT !.fn = "getBearerToken",
                          !.token = getBearerToken(env, configFile),
                          !.demo = isDemoMode(env, configFile)]
  /\ UNCHANGED programVars

NextPure ==
  \/ MockTweetsCall
  \/ MockRepliesCall
  \/ MockUserTweetsCall
  \/ CredentialCall

SpecPure == InitPure /\ [][NextPure]_vars

(* ------------------ the cache library, each call recorded ------------------ *)

S_key1 == <<107, 101, 121, 49>>                             \* "key1"
S_KEY1 == <<75, 69, 89, 49>>                                \* "KEY1"

\* Two keys that differ only in letter case.
StoreKeys == { RawKey(S_key1), RawKey(S_KEY1) }

\* A call of the cache library by fn(key, data, ttl) that leaves `out`.
Recorded(fn, key, data, ttl, hit, out) ==
  /\ pc = "idle"
  /\ direct < MaxDirect
  /\ direct' = direct + 1
  /\ quiet' = FALSE
  /\ call' = [NoCall EXCEPT !.fn = fn, !.key = key, !.data = data, !.ttl = ttl,
                            !.at = now, !.cfg = configFile,
                            !.was = [c |-> ProcCache, disk |-> cacheFile],
                            !.out = out, !.hit = hit]
  /\ Writes(out)
  /\ UNCHANGED << env, configFile, now, pc, op, req, response, userData, result, got,
                  counts, prev, evicted, calls, changes, cmd, peer >>

\* getCache(key)
GetCacheRecorded(key) ==
  LET g == getCache(ProcCache, cacheFile, configFile, now, key)
  IN Recorded("getCache", key, <<>>, Undef, g.hit,
              [c |-> g.c, disk |-> cacheFile, threw |-> g.threw])

\* setCache(key, data, ttl)
SetCacheRecorded(key, data, ttl) ==
  Recorded("setCache", key, data, ttl, FALSE,
           setCache(ProcCache, cacheFile, configFile, now, key, data, ttl))

\* deleteCache(key)
DeleteCacheRecorded(key) ==
  Recorded("deleteCache", key, <<>>, Undef, FALSE, deleteCache(ProcCache, cacheFile, key))

\* clearCache(), left undone when caching is disabled.
ClearCacheRecordedWhenEnabled ==
  Recorded("clearCache", RawKey(<<>>), <<>>, Undef, FALSE,
           IF isCacheEnabled(configFile) THEN clearCache
           ELSE [c |-> ProcCache, disk |-> cacheFile, threw |-> FALSE])

\* clearCache()
ClearCacheRecorded ==
  Recorded("clearCache", RawKey(<<>>), <<>>, Undef, FALSE, clearCache)

NextStore ==
  \/ \E key \in StoreKeys : GetCacheRecorded(key)
  \/ \E key \in StoreKeys, data \in DirectPayloads, ttl \in DirectTtls :
       SetCacheRecorded(key, data, ttl)
  \/ \E key \in StoreKeys : DeleteCacheRecorded(key)
  \/ ClearCacheRecorded
  \/ \E cv \in ConfigValues : ConfigSet(cv)
  \/ Restart
  \/ now < MaxCacheNow /\ Tick(1)

SpecStore == Init /\ [][NextStore]_vars

(* ----------------- a cache file that is not a store at start ---------------- *)

CorruptStates == {Unparsable} \cup NotAnObject

CorruptFiles == { [store |-> EmptyStore, state |-> k] : k \in CorruptStates }

\* As Init, but ~/.twitter-cli/cache.json holds something that is not a store.
InitCorrupt ==
  /\ env \in EnvTokens
  /\ configFile = EmptyConfigFile
  /\ cacheFile \in CorruptFiles
  /\ memoryCache = EmptyStore
  /\ cacheLoaded = FALSE
  /\ memoryKind = "object"
  /\ now = 0
  /\ pc = "idle"
  /\ op = NoOp
  /\ req = NoRequest
  /\ response = NoResponse
  /\ userData = RU_alice
  /\ result = NoResult
  /\ got = NoGot
  /\ counts = NoCounts
  /\ prev = NoPrev
  /\ quiet = FALSE
  /\ evicted = {}
  /\ calls = 0
  /\ direct = 0
  /\ changes = 0
  /\ call = NoCall
  /\ cmd = NoCmd
  /\ peer = FreshCache

\* Operations and cache calls made on it, together.
MaxCorruptCalls == 3

CanCall == calls + direct < MaxCorruptCalls

\* The commands and the cache library on such a file.
NextCorrupt ==
  \/ \E o \in RepliesInputs : CanCall /\ getReplies(o.arg, o.limit) /\ UNCHANGED << cmd, peer >>
  \/ \E resp \in ListResponses : getRepliesResponse(resp) /\ UNCHANGED << cmd, peer >>
  \/ \E key \in StoreKeys : CanCall /\ GetCacheRecorded(key)
  \/ \E key \in StoreKeys, data \in DirectPayloads, ttl \in DirectTtls :
       CanCall /\ SetCacheRecorded(key, data, ttl)
  \/ \E key \in StoreKeys : CanCall /\ DeleteCacheRecorded(key)
  \/ CanCall /\ ClearCacheRecorded
  \/ Restart

SpecCorrupt == InitCorrupt /\ [][NextCorrupt]_vars

(* ------------------- two processes on one cache file --------------------- *)

\* The other of the two processes runs from here on: memoryCache and
\* cacheLoaded are module state of a process, the file is shared, and nothing
\* in cache.ts locks it.
Switch ==
  /\ pc = "idle"
  /\ memoryCache' = peer.mem
  /\ cacheLoaded' = peer.loaded
  /\ memoryKind' = peer.kind
  /\ peer' = ProcCache
  /\ UNCHANGED << env, configFile, cacheFile, now, pc, op, req, response, userData,
                  result, got, counts, prev, quiet, evicted, calls, direct, changes,
                  call, cmd >>

NextRace ==
  \/ \E key \in StoreKeys : GetCacheRecorded(key)
  \/ \E key \in StoreKeys, data \in DirectPayloads, ttl \in DirectTtls :
       SetCacheRecorded(key, data, ttl)
  \/ Switch

SpecRace == Init /\ [][NextRace]_vars

(* ----------------------- a time-to-live of zero --------------------------- *)

\* ttl arguments of setCache: none, 0, 1 ms.
TtlArguments == { Undef, Num(0), Num(1) }

\* `config set cacheTtlMinutes 0` and `config set cacheTtlMinutes 2`: c.cacheTtlMinutes = +v.
TtlSettings ==
  { [key |-> "cacheTtlMinutes", value |-> Num(0)],
    [key |-> "cacheTtlMinutes", value |-> Num(2)] }

NextTtl ==
  \/ \E key \in StoreKeys, data \in DirectPayloads, ttl \in TtlArguments :
       SetCacheRecorded(key, data, ttl)
  \/ \E key \in StoreKeys : GetCacheRecorded(key)
  \/ \E cv \in TtlSettings : ConfigSet(cv)
  \/ Restart

SpecTtl == Init /\ [][NextTtl]_vars

(* ------------------------------ the commands ----------------------------- *)

\* /^\d+/.test(tweetId): the pattern without its end anchor.
IsTweetIdUnanchored(s) == s # <<>> /\ s[1] >= 48 /\ s[1] <= 57

\* /^\d+$/.test(tweetId)
IsTweetId(s) == s # <<>> /\ \A i \in DOMAIN s : s[i] >= 48 /\ s[i] <= 57

\* username.replace(/^@/, ''): one leading @ removed.
StripAt(s) == IF s # <<>> /\ s[1] = 64 THEN Tail(s) ELSE s

\* /^[a-zA-Z0-9_]{1,15}$/.test(u)
IsUsername(u) ==
  /\ Len(u) >= 1
  /\ Len(u) <= 15
  /\ \A i \in DOMAIN u : \/ u[i] >= 97 /\ u[i] <= 122
                         \/ u[i] >= 65 /\ u[i] <= 90
                         \/ u[i] >= 48 /\ u[i] <= 57
                         \/ u[i] = 95

\* +text, for a decimal integer with an optional minus sign.
UnaryPlus(text) == IF text[1] = 45 THEN 0 - ParseInt(Tail(text)) ELSE ParseInt(text)

\* opts.limit ? +opts.limit : 10
LimitOption(v) == IF Truthy(v) THEN UnaryPlus(v.s) ELSE 10

\* The SearchOptions object the search command builds: every property
\* present, the ones not given on the command line undefined.
CommandOptions(c) ==
  << Prop("query", Str(c.arg)), Prop("time", Undef), Prop("minLikes", Undef),
     Prop("minRetweets", Undef), Prop("verified", Undef),
     Prop("limit", Num(LimitOption(c.limit))), Prop("sort", Undef), Prop("lang", Undef) >>

\* formatTweets throws: Date.prototype.toISOString of an Invalid Date is a
\* RangeError.  lib/format (search, replies) calls it for --json and --csv,
\* lib/formatter (user) for --csv only; its --json is JSON.stringify.
FormatThrows(c, data) ==
  /\ \E i \in DOMAIN data : data[i].created_at.kind = "invalid"
  /\ \/ c.mode = "csv"
     \/ c.mode = "json" /\ c.name # "user"

\* The exit code of a handler that swallowed the error of its operation.
ExitCodeSwallowed(c, res) == 0

\* The exit code of a command whose operation returned or threw res: the
\* catch block exits with 1, the empty result exits with 0 before anything is
\* formatted, and a handler that runs to its end leaves the code at 0.
ExitCode(c, res) ==
  IF res.status = "error" THEN 1
  ELSE IF res.data = <<>> THEN 0
  ELSE IF FormatThrows(c, res.data) THEN 1 ELSE 0

Exits(c, code) == [c EXCEPT !.exited = TRUE, !.code = code]

\* The handler awaits its operation, or exits with what it returned or threw.
Follows(c) ==
  /\ cmd' = IF pc' = "idle" THEN Exits(c, ExitCode(c, result')) ELSE c
  /\ UNCHANGED peer

\* printError('Invalid ...'); process.exit(1): nothing else has run.
RejectsInput(c) ==
  /\ pc = "idle"
  /\ cmd' = Exits([c EXCEPT !.invalid = TRUE], 1)
  /\ UNCHANGED programVarsOfCommand

\* Every invocation of the program is a process of its own.
FreshProcess == ~cacheLoaded /\ memoryCache = EmptyStore /\ memoryKind = "object"

CommandLine(name, arg, limit, mode) ==
  [NoCmd EXCEPT !.name = name, !.arg = arg, !.limit = limit, !.mode = mode]

\* The command lines run in one behaviour: one, and the same one again.
Invoked(c) ==
  \/ cmd = NoCmd
  \/ cmd.exited /\ c = CommandLine(cmd.name, cmd.arg, cmd.limit, cmd.mode)

\* twitter-cli search <query> [-n limit] [--json|--csv|-q]
SearchCommand(c) ==
  /\ FreshProcess
  /\ Invoked(c)
  /\ searchTweets(CommandOptions(c))
  /\ Follows(c)

\* twitter-cli replies <tweet_id> [-n limit] [--json|--csv|-q]
RepliesCommand(c) ==
  /\ FreshProcess
  /\ Invoked(c)
  /\ IF IsTweetId(c.arg)
     THEN getReplies(c.arg, Num(LimitOption(c.limit))) /\ Follows(c)
     ELSE RejectsInput(c)

\* twitter-cli user <username> [-n limit] [--json|--csv|-q]
UserCommand(c) ==
  /\ FreshProcess
  /\ Invoked(c)
  /\ IF IsUsername(StripAt(c.arg))
     THEN getUserTweets(StripAt(c.arg), Num(LimitOption(c.limit))) /\ Follows(c)
     ELSE RejectsInput(c)

S_bob1 == <<98, 111, 98, 95, 49>>                           \* "bob_1"
S_atBob == <<64, 98, 111, 98>>                              \* "@bob"
S_atAtBob == <<64, 64, 98, 111, 98>>                        \* "@@bob"
S_boDashB == <<98, 111, 45, 98>>                            \* "bo-b"
S_sixteen == <<97, 97, 97, 97, 97, 97, 97, 97, 97, 97, 97, 97, 97, 97, 97, 97>>   \* sixteen a's
S_12a == <<49, 50, 97>>                                     \* "12a"

\* -n: absent, "0", "-1", "2", "150".
LimitTexts == { Undef, Str(<<48>>), Str(<<45, 49>>), Str(<<50>>), Str(<<49, 53, 48>>) }

SearchLines ==
  { CommandLine("search", S_ai, l, m) : l \in LimitTexts, m \in {"pretty", "json"} }

RepliesLines ==
  { CommandLine("replies", a, l, m) :
      a \in {S_123, S_12a, <<>>}, l \in LimitTexts, m \in {"pretty", "csv"} }

UserLines ==
  { CommandLine("user", a, l, m) :
      a \in {S_bob1, S_atBob, S_atAtBob, S_boDashB, S_sixteen, <<>>},
      l \in {Undef, Str(<<50>>), Str(<<45, 49>>)}, m \in {"json", "quiet"} }

\* The quota is exhausted: 429 with the rate-limit headers.
QuotaExhausted == HttpResponse(429, TRUE, "absent", <<>>, RateHeaders)

CommandListResponses ==
  ListResponses \cup { QuotaExhausted, HttpResponse(403, TRUE, "absent", <<>>, NoHeaders) }

CommandLookupResponses == LookupResponses \cup { QuotaExhausted }

NextCommands ==
  \/ \E c \in SearchLines : SearchCommand(c)
  \/ \E resp \in CommandListResponses : searchTweetsResponse(resp) /\ Follows(cmd)
  \/ \E c \in RepliesLines : RepliesCommand(c)
  \/ \E resp \in CommandListResponses : getRepliesResponse(resp) /\ Follows(cmd)
  \/ \E c \in UserLines : UserCommand(c)
  \/ \E resp \in CommandLookupResponses : getUserTweetsLookupResponse(resp) /\ Follows(cmd)
  \/ \E resp \in CommandListResponses : getUserTweetsResponse(resp) /\ Follows(cmd)
  \/ Restart

SpecCommands == Init /\ [][NextCommands]_vars

(* ----------------- lib/format.ts, lib/formatter.ts: formatCsv -------------- *)

S_csvHeaders == <<105, 100, 44, 117, 115, 101, 114, 110, 97, 109, 101, 44, 110, 97, 109, 101, 44, 116, 101, 120, 116, 44, 108, 105, 107, 101, 115, 44, 114, 101, 116, 119, 101, 101, 116, 115, 44, 114, 101, 112, 108, 105, 101, 115, 44, 118, 105, 101, 119, 115, 44, 99, 114, 101, 97, 116, 101, 100, 95, 97, 116, 44, 117, 114, 108>>   \* "id,username,name,text,likes,retweets,replies,views,created_at,url"
S_csvHeadersNoName == <<105, 100, 44, 117, 115, 101, 114, 110, 97, 109, 101, 44, 116, 101, 120, 116, 44, 108, 105, 107, 101, 115, 44, 114, 101, 116, 119, 101, 101, 116, 115, 44, 114, 101, 112, 108, 105, 101, 115, 44, 118, 105, 101, 119, 115, 44, 99, 114, 101, 97, 116, 101, 100, 95, 97, 116, 44, 117, 114, 108>>   \* "id,username,text,likes,retweets,replies,views,created_at,url"
S_epochSecond == <<49, 57, 55, 48, 45, 48, 49, 45, 48, 49, 84, 48, 48, 58, 48, 48, 58, 48, 48, 46>>   \* "1970-01-01T00:00:00."

\* Date.prototype.toISOString, for a date in the first second of the epoch.
toISOString(d) ==
  S_epochSecond \o << 48 + ((d.t \div 100) % 10), 48 + ((d.t \div 10) % 10), 48 + (d.t % 10), 90 >>

\* str.replace(/\n/g, ' ')
NewlinesToSpaces(str) == [i \in DOMAIN str |-> IF str[i] = 10 THEN 32 ELSE str[i]]

\* The quotes of the text left as they are.
QuotesKept(str) == str

\* str.replace(/"/g, '""')
RECURSIVE DoubleQuotes(_)
DoubleQuotes(str) ==
  IF str = <<>> THEN <<>>
  ELSE (IF Head(str) = 34 THEN <<34, 34>> ELSE << Head(str) >>) \o DoubleQuotes(Tail(str))

\* escapeCSV / esc: quoted when the field has a comma, a quote or a newline.
escapeCSV(str) ==
  IF \E i \in DOMAIN str : str[i] \in {44, 34, 10}
  THEN <<34>> \o DoubleQuotes(str) \o <<34>>
  ELSE str

\* Array.prototype.join(sep)
RECURSIVE Join(_, _)
Join(parts, sep) ==
  IF parts = <<>> THEN <<>>
  ELSE IF Len(parts) = 1 THEN parts[1]
  ELSE parts[1] \o sep \o Join(Tail(parts), sep)

\* A row of lib/format's formatCsv.
CsvRow(t) ==
  Join(<< t.id, t.author.username, escapeCSV(t.author.name),
          escapeCSV(NewlinesToSpaces(t.text)),
          NumToString(t.metrics.likes), NumToString(t.metrics.retweets),
          NumToString(t.metrics.replies), NumToString(t.metrics.views),
          toISOString(t.created_at), t.url >>, <<44>>)

\* A row of lib/formatter's formatCsv: no name column.
CsvRowNoName(t) ==
  Join(<< t.id, t.author.username, escapeCSV(NewlinesToSpaces(t.text)),
          NumToString(t.metrics.likes), NumToString(t.metrics.retweets),
          NumToString(t.metrics.replies), NumToString(t.metrics.views),
          toISOString(t.created_at), t.url >>, <<44>>)

\* formatCsv(tweets) of lib/format: [headers.join(','), ...rows].join('\n')
formatCsv(tweets) ==
  Join(<< S_csvHeaders >> \o [i \in DOMAIN tweets |-> CsvRow(tweets[i])], <<10>>)

\* formatCsv(ts) of lib/formatter
formatCsvNoName(ts) ==
  Join(<< S_csvHeadersNoName >> \o [i \in DOMAIN ts |-> CsvRowNoName(ts[i])], <<10>>)

\* The longest text formatted.
MaxTextLen == 3

\* A letter, a space, a comma, a double quote, a newline.
CsvChars == {97, 32, 44, 34, 10}

CsvTexts == UNION { [1..n -> CsvChars] : n \in 0..MaxTextLen }

\* Two records: one with the text, and one after it.
CsvTweets(text) ==
  << [parseTweet(RT1, RU_alice) EXCEPT !.text = text],
     [parseTweet(RT2, RU_alice) EXCEPT !.text = <<97>>] >>

InitCsv ==
  /\ env = Undef
  /\ configFile = EmptyConfigFile
  /\ cacheFile = NoFile
  /\ memoryCache = EmptyStore
  /\ cacheLoaded = FALSE
  /\ memoryKind = "object"
  /\ now = 0
  /\ pc = "idle"
  /\ op = NoOp
  /\ req = NoRequest
  /\ response = NoResponse
  /\ userData = RU_alice
  /\ result = NoResult
  /\ got = NoGot
  /\ counts = NoCounts
  /\ prev = NoPrev
  /\ quiet = FALSE
  /\ evicted = {}
  /\ calls = 0
  /\ direct = 0
  /\ changes = 0
  /\ call \in { [NoCall EXCEPT !.arg = t] : t \in CsvTexts }
  /\ cmd = NoCmd
  /\ peer = FreshCache

\* formatCsv of lib/format (search, replies) on the two records.
FormatCsvCall ==
  /\ call.fn = "none"
  /\ call' = [call EXCEPT !.fn = "format", !.csv = formatCsv(CsvTweets(call.arg))]
  /\ UNCHANGED programVars

\* formatCsv of lib/formatter (user) on the two records.
FormatterCsvCall ==
  /\ call.fn = "none"
  /\ call' = [call EXCEPT !.fn = "formatter", !.csv = formatCsvNoName(CsvTweets(call.arg))]
  /\ UNCHANGED programVars

NextCsv ==
  \/ FormatCsvCall
  \/ FormatterCsvCall

SpecCsv == InitCsv /\ [][NextCsv]_vars

(* ------------------ commands/setup.ts and `config set` --------------------- *)

\* The config file's token asked before the environment's.
getTokenSourceFileFirst(e, file) ==
  IF Truthy(loadConfig(file).bearerToken) THEN "config"
  ELSE IF Truthy(e) THEN "env" ELSE "none"

\* getTokenSource(): 'env' | 'config' | 'none'
getTokenSource(e, file) ==
  IF Truthy(e) THEN "env"
  ELSE IF Truthy(getBearerToken(e, file)) THEN "config" ELSE "none"

\* validateToken(token) for the response resp to its test request: asked is
\* whether the request was made, valid what it reports.  request() of
\* lib/twitter resolves for every status; 429 is reported as valid.
validateToken(token, e, file, resp) ==
  LET bearerToken == IF Truthy(token) THEN token ELSE getBearerToken(e, file)
  IN IF ~Truthy(bearerToken) THEN [valid |-> FALSE, asked |-> FALSE]
     ELSE [valid |-> CASE resp.kind \in {TransportError, Timeout} -> FALSE
                       [] ~resp.parses -> FALSE
                       [] resp.status = 401 -> FALSE
                       [] resp.status = 403 -> FALSE
                       [] resp.status = 429 -> TRUE
                       [] resp.shape = "errors" -> FALSE
                       [] resp.status >= 400 -> FALSE
                       [] OTHER -> TRUE,
           asked |-> TRUE]

\* config.bearerToken = token; saveConfig(config), config being loadConfig().
WithToken(file, token) == [loadConfig(file) EXCEPT !.bearerToken = Str(token)]

\* The command has exited with `code`, validateToken having reported `checked`.
Ran(c, checked, code) ==
  [c EXCEPT !.exited = TRUE, !.code = code, !.source = getTokenSource(env, configFile),
            !.checked = checked, !.before = configFile, !.envToken = env]

Verdict(v) == IF v.valid THEN "valid" ELSE "invalid"

\* What a setup or `config set` command leaves alone.
UnchangedBySetup ==
  UNCHANGED << env, cacheFile, memoryCache, cacheLoaded, memoryKind, now, pc, op, req,
               userData, result, got, counts, prev, evicted, calls, direct, changes,
               call, peer >>

\* twitter-cli setup [--skip-validation], the reply to the reconfigure prompt
\* being c.answer and the token typed c.arg.
SetupCommand(c, resp) ==
  LET source == getTokenSource(env, configFile)
      ofEnv == validateToken(Undef, env, configFile, resp)
      ofTyped == validateToken(Str(c.arg), env, configFile, resp)
      validates == c.mode # "skip-validation"
  IN /\ pc = "idle"
     /\ quiet' = FALSE
     /\ UnchangedBySetup
     /\ IF source = "env"
        THEN /\ cmd' = Ran(c, Verdict(ofEnv), 0)
             /\ response' = resp
             /\ UNCHANGED configFile
        ELSE IF source = "config" /\ ToLowerCase(c.answer) \notin {<<121>>, <<121, 101, 115>>}
        THEN /\ cmd' = Ran(c, "none", 0)
             /\ UNCHANGED << configFile, response >>
        ELSE IF c.arg = <<>>
        THEN /\ cmd' = Ran(c, "none", 0)
             /\ UNCHANGED << configFile, response >>
        ELSE IF validates /\ ~ofTyped.valid
        THEN /\ cmd' = Ran(c, "invalid", 1)
             /\ response' = resp
             /\ UNCHANGED configFile
        ELSE /\ cmd' = Ran(c, IF validates THEN "valid" ELSE "none", 0)
             /\ response' = (IF validates THEN resp ELSE response)
             /\ configFile' = WithToken(configFile, c.arg)

\* twitter-cli config set bearerToken <value> [--validate]
ConfigSetToken(c, resp) ==
  LET ofGiven == validateToken(Str(c.arg), env, configFile, resp)
      validates == c.mode = "validate"
  IN /\ pc = "idle"
     /\ quiet' = FALSE
     /\ UnchangedBySetup
     /\ IF validates /\ ~ofGiven.valid
        THEN /\ cmd' = Ran(c, "invalid", 1)
             /\ response' = resp
             /\ UNCHANGED configFile
        ELSE /\ cmd' = Ran(c, IF validates THEN "valid" ELSE "none", 0)
             /\ response' = (IF validates THEN resp ELSE response)
             /\ configFile' = WithToken(configFile, c.arg)

\* The replies to "Do you want to reconfigure? (y/N)": y, Y, yes, n, nothing.
Answers == { <<121>>, <<89>>, <<121, 101, 115>>, <<110>>, <<>> }

SetupLines ==
  { [CommandLine("setup", t, Undef, m) EXCEPT !.answer = a] :
      t \in {<<>>, S_token, S_tok2}, m \in {"validate", "skip-validation"}, a \in Answers }

ConfigSetLines ==
  { CommandLine("config set", t, Undef, m) : t \in {S_token, S_tok2}, m \in {"validate", "plain"} }

\* Responses to the test request of validateToken.
ValidationResponses ==
  { Failure(TransportError), Failure(Timeout),
    HttpResponse(200, FALSE, "absent", <<>>, NoHeaders),
    HttpResponse(200, TRUE, "list", << RT1 >>, NoHeaders),
    HttpResponse(200, TRUE, "errors", <<>>, NoHeaders),
    HttpResponse(401, TRUE, "errors", <<>>, NoHeaders),
    HttpResponse(403, TRUE, "absent", <<>>, NoHeaders),
    HttpResponse(429, TRUE, "absent", <<>>, NoHeaders),
    HttpResponse(500, TRUE, "absent", <<>>, NoHeaders) }

NextSetup ==
  \/ \E c \in SetupLines, resp \in ValidationResponses : SetupCommand(c, resp)
  \/ \E c \in ConfigSetLines, resp \in ValidationResponses : ConfigSetToken(c, resp)

SpecSetup == Init /\ [][NextSetup]_vars

(* ------------------------------- claims -------------------------------- *)

\* A step of searchTweets, getReplies or getUserTweets: the call, or the
\* handling of a response.
OperationStep == calls' = calls + 1 \/ pc # "idle"

\* The entry the last getCache call found was not expired at the call.
GotFresh == got.present /\ got.at - got.entry.timestamp <= got.entry.ttl

\* C1: whenever an operation starts with caching enabled and a non-expired
\* entry under its cache key, it returns that entry (dates revived) tagged
\* fromCache = true, in the same step, with no mock synthesis and no request,
\* in demo mode and with a credential alike.
C1_CacheHitShortCircuits ==
  (op.type # "none" /\ got.valid /\ got.key = CacheKey(op) /\ got.enabled /\ GotFresh)
    => /\ pc = "idle"
       /\ result = Returned(Rehydrate(got.entry.data), TRUE, NoRateLimit)
       /\ counts.mockCalls = 0
       /\ counts.requests = 0
       /\ counts.setCalls = 0

\* C1 witness: an operation in demo mode has returned a non-empty cached list.
C1_Witness ==
  /\ got.valid /\ got.demo /\ got.hit
  /\ pc = "idle"
  /\ result.fromCache
  /\ Len(result.data) > 0

\* The second of two calls of the same operation in immediate succession,
\* caching enabled, the first one having returned.
RepeatedCall ==
  /\ prev.valid
  /\ prev.op = op
  /\ prev.result.status = "ok"
  /\ got.enabled

\* The first of the two calls left its result in the cache: it was a cache
\* hit itself, or it wrote its result with setCache.
FirstCallCached == prev.result.fromCache \/ prev.counts.setCalls > 0

C3_DemoModeNeverWrites ==
  [][(isDemoMode(env, configFile) /\ OperationStep)
       => /\ cacheFile' = cacheFile
          /\ counts'.setCalls = 0
          /\ \A k \in DOMAIN memoryCache' :
               k \in DOMAIN StoreView /\ memoryCache'[k] = StoreView[k]]_vars

\* C3 witness: two demo-mode operations in succession have returned mock
\* records and there is no cache file.
C3_Witness ==
  /\ calls = 2
  /\ got.demo
  /\ prev.valid
  /\ prev.counts.mockCalls = 1
  /\ counts.mockCalls = 1
  /\ Len(result.data) > 0
  /\ cacheFile = NoFile
  /\ memoryCache = EmptyStore

\* C4: with cacheEnabled = false no step of an operation returns
\* fromCache = true and none changes the in-memory store or the cache file.
C4_DisabledCacheIsInert ==
  [][(~isCacheEnabled(configFile) /\ OperationStep)
       => /\ ~result'.fromCache
          /\ cacheFile' = cacheFile
          /\ memoryCache' = memoryCache
          /\ cacheLoaded' = cacheLoaded]_vars

\* C4 witness: with caching disabled and a fresh entry under its key in the
\* store, an operation has gone to the network, called setCache and returned
\* records not tagged fromCache.
C4_Witness ==
  /\ got.valid /\ ~got.enabled /\ GotFresh
  /\ got.key \in DOMAIN cacheFile.store
  /\ pc = "idle"
  /\ result.status = "ok"
  /\ ~result.fromCache
  /\ counts.setCalls = 1
  /\ Len(result.data) > 0

\* C5: getCache returns absent exactly when the store has no entry for the
\* key, or caching is disabled, or now - timestamp > ttl; otherwise it
\* returns the stored payload, also when the entry's age equals its ttl.
C5_GetAbsentExactlyWhen ==
  got.valid
    => /\ got.hit <=> (got.enabled /\ GotFresh)
       /\ got.hit => got.data = got.entry.data

\* C5 witness: a read has returned a non-empty payload whose age equals its ttl.
C5_Witness ==
  /\ got.valid /\ got.hit
  /\ got.at - got.entry.timestamp = got.entry.ttl
  /\ Len(got.data) > 0

\* The entry e, found expired by a read, is in the store.
Holds(store, e) == e.key \in DOMAIN store /\ store[e.key].timestamp = e.timestamp

\* C6 as stated: an entry a read has found expired is evicted from the cache
\* file too.
C6_AsStated == \A e \in evicted : ~Holds(cacheFile.store, e)

\* C6 amended: a read of an expired entry returns absent, removes the entry
\* from the reading process's in-memory store and leaves the cache file as
\* it is; and no read returns an entry an earlier read has found expired.
C6_ExpiredReadEvictsFromMemory ==
  [][/\ \A key \in DirectKeys :
          (/\ GetCacheCall(key)
           /\ isCacheEnabled(configFile)
           /\ key \in DOMAIN StoreView
           /\ Expired(StoreView[key], now))
            => /\ ~got'.hit
               /\ key \notin DOMAIN memoryCache'
               /\ cacheFile' = cacheFile
     /\ got'.hit => [key |-> got'.key, timestamp |-> got'.entry.timestamp] \notin evicted'
    ]_vars

\* C6 witness: an entry found expired is gone from the in-memory store of the
\* process that read it and is still in the cache file.
C6_Witness ==
  /\ got.valid /\ got.enabled /\ got.present /\ ~got.hit
  /\ cacheLoaded
  /\ got.key \notin DOMAIN memoryCache
  /\ \E e \in evicted : e.key = got.key /\ Holds(cacheFile.store, e)

\* The parameters of a search after the destructuring's defaults.
SearchParams ==
  {"query", "time", "minLikes", "minRetweets", "verified", "limit", "sort", "lang"}

AfterDefaults(options) ==
  [k \in SearchParams |->
     CASE k = "limit" -> WithDefault(Get(options, k), Num(DefaultLimit))
       [] k = "sort" -> WithDefault(Get(options, k), Str(S_popular))
       [] OTHER -> Get(options, k)]

\* Options a is options b with some properties left out.
LeavesOut(a, b) == a # b /\ a = SelectSeq(b, LAMBDA p : HasProp(a, p.k))

\* C7 as stated: a search that omits limit or sort and a search that passes
\* the default explicitly have the same cache key, and the second is a cache
\* hit on the entry the first one wrote.
C7_AsStated ==
  (/\ prev.valid
   /\ prev.op.type = "search" /\ op.type = "search"
   /\ AfterDefaults(prev.op.options) = AfterDefaults(op.options)
   /\ LeavesOut(prev.op.options, op.options) \/ LeavesOut(op.options, prev.op.options))
    => /\ got.key = prev.key
       /\ (got.enabled /\ prev.counts.setCalls > 0) => result.fromCache

\* The type and the parameter values of an operation as the caller passed
\* them; a username counts without its letter case, as the remote API and
\* the key treat it.
ParamsOf(o) ==
  [type |-> o.type,
   params |->
     CASE o.type = "search" ->
            {o.options[i] : i \in {j \in DOMAIN o.options : o.options[j].v.t # "undef"}}
       [] o.type = "user" ->
            {Prop("username", Str(ToLowerCase(o.arg))), Prop("limit", Num(EffectiveLimit(o)))}
       [] OTHER ->
            {Prop("tweetId", Str(o.arg)), Prop("limit", Num(EffectiveLimit(o)))}]

\* C8 as stated: two operations have the same cache key exactly when they
\* have the same type and the same parameter values.
C8_AsStated ==
  prev.valid => ((ParamsOf(prev.op) = ParamsOf(op)) <=> (prev.key = got.key))

\* C9 as stated: when a network-path operation has just returned a result
\* for a 2xx response, caching enabled, the cache file holds that result
\* under the operation's key with the configured ttl, written now.
C9_AsStated ==
  (/\ quiet /\ pc = "idle"
   /\ result.status = "ok"
   /\ counts.requests > 0
   /\ response.status \in 200..299
   /\ got.enabled)
    => /\ got.key \in DOMAIN cacheFile.store
       /\ cacheFile.store[got.key] =
            [data |-> [i \in DOMAIN result.data |-> TweetToJson(result.data[i])],
             timestamp |-> now, ttl |-> getCacheTtl(configFile)]

\* The request failed: transport error, timeout, unparsable body or a status
\* outside 200..299.
RequestFailed(r) ==
  \/ r.kind \in {TransportError, Timeout}
  \/ ~r.parses
  \/ r.status \notin 200..299

\* C10 as stated: when a request fails, the operation rejects, returns no
\* records, sends no further request and leaves the cache as it is.
C10_AsStated ==
  [][(pc # "idle" /\ RequestFailed(response'))
       => /\ pc' = "idle"
          /\ result'.status = "error"
          /\ result'.data = <<>>
          /\ counts'.requests = counts.requests
          /\ cacheFile' = cacheFile
          /\ memoryCache' = memoryCache
          /\ cacheLoaded' = cacheLoaded]_vars

\* The cache as a caller sees it is the same before and after the step.
CacheUntouched ==
  /\ cacheFile' = cacheFile /\ memoryCache' = memoryCache
  /\ cacheLoaded' = cacheLoaded /\ memoryKind' = memoryKind

\* C11: in getUserTweets on the network path the timeline request is sent only
\* in the step that handles a successful lookup response carrying a user, and
\* it asks for that user's id; a successful lookup response carrying no user
\* ends the operation with the not-found error, with no further request, no
\* cache write and no list returned.
C11_TimelineOnlyAfterUserFound ==
  [][ /\ (pc' = "userTweets" /\ pc # "userTweets") =>
           /\ pc = "userLookup"
           /\ request(response').ok /\ response'.shape = "object"
           /\ req'.endpoint = "timeline" /\ req'.query = response'.user.id
           /\ counts'.requests = counts.requests + 1
      /\ (pc = "userLookup" /\ request(response').ok /\ response'.shape = "absent") =>
           /\ pc' = "idle"
           /\ result' = Rejected("User not found")
           /\ req' = req /\ counts' = counts
           /\ CacheUntouched ]_vars

C11_Witness ==
  /\ pc = "idle" /\ op.type = "user"
  /\ response.kind = Http /\ response.status = 200 /\ response.shape = "absent"
  /\ result.status = "error" /\ result.error = "User not found"
  /\ req.endpoint = "userLookup" /\ counts.requests = 1 /\ counts.setCalls = 0

\* The operations whose result is ordered by popularity.
PopularPolicy(o) ==
  o.type \in {"replies", "user"} \/ (o.type = "search" /\ EffectiveSort(o) = S_popular)

NonIncreasingLikes(data) ==
  \A i \in 1..(Len(data) - 1) : data[i].metrics.likes >= data[i + 1].metrics.likes

\* Where the record with this id stands in the response's data list.
SourceIndex(raw, id) == CHOOSE k \in DOMAIN raw : raw[k].id = id

\* Records of the result with equal likes stand in the order of the response.
KeepsSourceOrder(data, raw) ==
  \A i, j \in DOMAIN data :
     (i < j /\ data[i].metrics.likes = data[j].metrics.likes)
       => SourceIndex(raw, data[i].id) < SourceIndex(raw, data[j].id)

\* C12: every list returned under the popular policy (search with sort
\* 'popular' or omitted, replies, user timeline), from the mock path, the
\* network path or the cache, is non-increasing in metrics.likes, and on the
\* network path records with equal likes keep the order of the response.
C12_PopularIsSortedAndStable ==
  (pc = "idle" /\ result.status = "ok" /\ PopularPolicy(op)) =>
     /\ NonIncreasingLikes(result.data)
     /\ (counts.requests > 0 /\ response.shape = "list")
          => KeepsSourceOrder(result.data, response.data)

C12_Witness ==
  /\ pc = "idle" /\ result.status = "ok" /\ PopularPolicy(op)
  /\ counts.requests > 0 /\ Len(result.data) = 3
  /\ result.data[1].metrics.likes > result.data[2].metrics.likes
  /\ result.data[2].metrics.likes = result.data[3].metrics.likes

\* The texts of the template pool.
TemplateTexts == { MOCK_TWEET_TEMPLATES[i].text : i \in DOMAIN MOCK_TWEET_TEMPLATES }

\* C13: generateMockTweets(query, limit), for every query and every limit >= 1,
\* returns exactly min(limit, 9) records, each with the text of a template of
\* the pool, no text twice, and each with metrics.views >= metrics.likes.
C13_MockTweetsCountAndVariety ==
  call.fn = "generateMockTweets" =>
    \A out \in {call.first, call.second} :
       /\ Len(out) = (IF call.limit < 9 THEN call.limit ELSE 9)
       /\ \A i \in DOMAIN out :
            /\ out[i].text \in TemplateTexts
            /\ out[i].metrics.views >= out[i].metrics.likes
       /\ \A i, j \in DOMAIN out : i # j => out[i].text # out[j].text

C13_Witness ==
  /\ call.fn = "generateMockTweets" /\ call.limit = MaxMockLimit
  /\ Len(call.first) = 9
  /\ Cardinality({ call.first[i].text : i \in DOMAIN call.first }) = 9

AuthorNames(out) == [i \in DOMAIN out |-> out[i].author.username]
TextsOf(out) == [i \in DOMAIN out |-> out[i].text]

\* C14: two calls of generateMockTweets with the same query and limit return
\* the same author usernames and the same template texts in the same order,
\* whatever Math.random() gives for the ids and the timestamps.
C14_MockTweetsDeterministic ==
  call.fn = "generateMockTweets" =>
    /\ AuthorNames(call.first) = AuthorNames(call.second)
    /\ TextsOf(call.first) = TextsOf(call.second)

C14_Witness ==
  /\ call.fn = "generateMockTweets" /\ Len(call.first) > 1
  /\ call.first[1].id # call.second[1].id
  /\ call.first[1].created_at # call.second[1].created_at
  /\ call.first[1].author.username # call.first[2].author.username

\* The pool holds a user of this name, letter case ignored.
KnownIgnoringCase(username) ==
  \E k \in DOMAIN MOCK_USERS :
     ToLowerCase(MOCK_USERS[k].username) = ToLowerCase(username)

\* C15 as stated: every record of generateMockUserTweets(username, limit)
\* carries exactly the requested username as author.username.
C15_AsStated ==
  call.fn = "generateMockUserTweets" =>
    \A i \in DOMAIN call.first : call.first[i].author.username = call.arg

\* C15: every record of generateMockUserTweets(username, limit) carries the
\* requested username up to letter case; when the pool holds the name (letter
\* case ignored) the author is that pool entry, spelled as the pool spells it,
\* and otherwise a synthesized user (id '999') with exactly the requested name.
C15_UserTweetsAuthor ==
  call.fn = "generateMockUserTweets" =>
    \A out \in {call.first, call.second} : \A i \in DOMAIN out :
       /\ ToLowerCase(out[i].author.username) = ToLowerCase(call.arg)
       /\ KnownIgnoringCase(call.arg) =>
            \E k \in DOMAIN MOCK_USERS : out[i].author = MOCK_USERS[k]
       /\ ~KnownIgnoringCase(call.arg) =>
            (out[i].author.username = call.arg /\ out[i].author.id = S_999)

C15_Witness ==
  /\ call.fn = "generateMockUserTweets" /\ call.arg = S_ElonMusk
  /\ Len(call.first) = 9
  /\ call.first[1].author.username = MOCK_USERS[1].username

\* The record's url is 'https://twitter.com/' + author.username + '/status/' + id.
UrlIsCanonical(tw) == tw.url = S_urlBase \o tw.author.username \o S_status \o tw.id

\* C16: every record an operation returns (from parseTweet on a network
\* response, from a mock generator, or from a cache hit) and every record held
\* in the cache has url = 'https://twitter.com/' + author.username +
\* '/status/' + id.
C16_UrlIsCanonical ==
  /\ \A i \in DOMAIN result.data : UrlIsCanonical(result.data[i])
  /\ \A k \in DOMAIN cacheFile.store :
       \A i \in DOMAIN cacheFile.store[k].data : UrlIsCanonical(cacheFile.store[k].data[i])

C16_Witness ==
  /\ pc = "idle" /\ result.status = "ok" /\ result.fromCache
  /\ counts.requests = 0
  /\ \E i, j \in DOMAIN result.data :
       /\ result.data[i].author.username = S_alice
       /\ result.data[j].author.username = S_unknown

\* C17 as stated: the environment variable is returned whenever it is set,
\* the empty string included.
C17_AsStated ==
  (call.fn = "getBearerToken" /\ env.t = "str") => call.token = env

\* C17: getBearerToken returns TWITTER_BEARER_TOKEN whenever it is set to a
\* non-empty string, whatever the config file holds, and the config file's
\* bearerToken otherwise (variable unset or empty); isDemoMode is true exactly
\* when neither the variable nor the file holds a non-empty token.
C17_CredentialResolution ==
  call.fn = "getBearerToken" =>
    /\ Truthy(env) => call.token = env
    /\ ~Truthy(env) => call.token = configFile.bearerToken
    /\ call.demo <=> (~Truthy(env) /\ ~Truthy(configFile.bearerToken))

C17_Witness ==
  /\ call.fn = "getBearerToken"
  /\ env = Str(S_token) /\ configFile.bearerToken = Str(S_tok2)
  /\ call.token = Str(S_token) /\ ~call.demo

\* The store the process holds when the recorded call starts work on it (the
\* file loaded if it was not yet), and the store it holds afterwards.
StoreBefore(cl) == loadCacheFromDisk(cl.was.c, cl.was.disk).mem
StoreAfter(cl) == cl.out.c.mem

\* The entry setCache(key, data, ttl) writes: { data, timestamp: Date.now(),
\* ttl: ttl || getCacheTtl() }.
EntryWritten(cl) ==
  [data |-> cl.data, timestamp |-> cl.at,
   ttl |-> IF Truthy(cl.ttl) THEN cl.ttl.n ELSE getCacheTtl(cl.cfg)]

\* Every key but the call's own has the entry it had, or none as before.
OtherKeysUnchanged(cl) ==
  /\ DOMAIN StoreAfter(cl) \ {cl.key} = DOMAIN StoreBefore(cl) \ {cl.key}
  /\ \A k \in DOMAIN StoreAfter(cl) \ {cl.key} : StoreAfter(cl)[k] = StoreBefore(cl)[k]

\* C18: with caching enabled, setCache(key, payload, ttl) leaves under key
\* exactly the new entry (payload, timestamp of the call, ttl of the call or
\* the configured default), whatever entry the key had, and deleteCache(key)
\* leaves none; both leave every other key's entry as it was, a key that
\* differs only in letter case included, and the file holds the resulting store.
C18_SetReplacesDeleteRemovesOnlyKey ==
  /\ (call.fn = "setCache" /\ isCacheEnabled(call.cfg)) =>
       /\ call.key \in DOMAIN StoreAfter(call)
       /\ StoreAfter(call)[call.key] = EntryWritten(call)
       /\ OtherKeysUnchanged(call)
       /\ call.out.disk.store = StoreToJson(StoreAfter(call))
  /\ call.fn = "deleteCache" =>
       /\ call.key \notin DOMAIN StoreAfter(call)
       /\ OtherKeysUnchanged(call)
       /\ call.out.disk.store = StoreToJson(StoreAfter(call))

C18_Witness ==
  /\ call.fn = "setCache" /\ call.key = RawKey(S_key1)
  /\ DOMAIN StoreBefore(call) = StoreKeys
  /\ StoreBefore(call)[call.key].data # call.data
  /\ StoreBefore(call)[call.key].timestamp # call.at
  /\ StoreBefore(call)[call.key].ttl # EntryWritten(call).ttl
  /\ StoreAfter(call)[RawKey(S_KEY1)] # StoreAfter(call)[RawKey(S_key1)]

LoadsCorrupt(cl) == ~cl.was.c.loaded /\ cl.was.disk.state \in CorruptStates

\* The recorded call finds the corrupt file, or what an earlier call of the
\* process made of it.
FoundCorrupt(cl) == LoadsCorrupt(cl) \/ cl.was.c.kind # "object"

\* C20 as stated: on a corrupt cache file (unparsable, or not a single JSON
\* object) a getCache returns absent and raises no error, no operation fails
\* in its cache lookup, and a setCache succeeds and leaves the file a valid
\* store holding the entry.
C20_AsStated ==
  /\ (call.fn = "getCache" /\ LoadsCorrupt(call)) => (~call.out.threw /\ ~call.hit)
  /\ ~got.threw
  /\ (call.fn = "setCache" /\ FoundCorrupt(call)) =>
       /\ ~call.out.threw
       /\ call.out.disk.state = "ok"
       /\ call.key \in DOMAIN call.out.disk.store

\* C25 as stated: one invocation performs at most one cache read, at most one
\* mock synthesis and at most one network round trip, and never both a mock
\* synthesis and a network request.
C25_AsStated ==
  /\ counts.cacheReads <= 1
  /\ counts.mockCalls <= 1
  /\ counts.requests <= 1
  /\ ~(counts.mockCalls > 0 /\ counts.requests > 0)

\* C25: one invocation performs at most one cache read and at most one mock
\* synthesis, never both a mock synthesis and a network request, and at most
\* one network round trip for search and replies; the user timeline performs
\* up to two, the user lookup and then the timeline request, and exactly two
\* whenever it returns records from the network.
C25_RoundTripsPerInvocation ==
  /\ counts.cacheReads <= 1
  /\ counts.mockCalls <= 1
  /\ ~(counts.mockCalls > 0 /\ counts.requests > 0)
  /\ counts.requests <= (IF op.type = "user" THEN 2 ELSE 1)
  /\ (pc = "idle" /\ op.type = "user" /\ result.status = "ok"
        /\ ~result.fromCache /\ counts.mockCalls = 0) => counts.requests = 2

C25_Witness ==
  /\ pc = "idle" /\ op.type = "user" /\ result.status = "ok"
  /\ counts.requests = 2 /\ counts.cacheReads = 1 /\ counts.mockCalls = 0
  /\ Len(result.data) > 0

AllDigits(s) == Len(s) > 0 /\ \A i \in 1..Len(s) : s[i] \in 48..57

NameAfterAt(s) == IF Len(s) > 0 /\ s[1] = 64 THEN SubSeq(s, 2, Len(s)) ELSE s

WellFormedName(u) ==
  Len(u) \in 1..15 /\ \A i \in 1..Len(u) : u[i] \in (97..122) \cup (65..90) \cup (48..57) \cup {95}

Malformed(c) ==
  \/ c.name = "replies" /\ ~AllDigits(c.arg)
  \/ c.name = "user" /\ ~WellFormedName(NameAfterAt(c.arg))

\* C29: a replies or user command with a malformed tweet id or username exits
\* with code 1 in the step that starts it, and that step makes no cache read,
\* no mock synthesis and no request: nothing but the exit happens.
C29_RejectedBeforeAnyCall ==
  [][ (cmd' # cmd /\ Malformed(cmd'))
        => (cmd'.exited /\ cmd'.code = 1 /\ UNCHANGED programVarsOfCommand) ]_vars

\* `user @@bob` has exited with 1 and no operation has started.
C29_Witness ==
  /\ cmd.exited
  /\ cmd.invalid
  /\ cmd.code = 1
  /\ cmd.name = "user"
  /\ cmd.arg = S_atAtBob
  /\ calls = 0
  /\ counts = NoCounts
  /\ got = NoGot

Between(x, lo, hi) == IF x < lo THEN lo ELSE IF x > hi THEN hi ELSE x

\* C26: on the network path the max_results sent is the requested limit
\* clamped into 10..100 (search, replies) or 5..100 (user timeline), and the
\* list returned is then cut to the requested limit: for every limit >= 1 the
\* result has the first `limit` records of the response, or all of them if
\* there are fewer.
C26_ClampThenTruncate ==
  /\ (pc # "idle" \/ counts.requests > 0) =>
       /\ req.endpoint = "search" => req.max_results = Between(EffectiveLimit(op), 10, 100)
       /\ req.endpoint = "timeline" => req.max_results = Between(EffectiveLimit(op), 5, 100)
  /\ (pc = "idle" /\ result.status = "ok" /\ counts.requests > 0 /\ EffectiveLimit(op) >= 1) =>
       /\ Len(result.data) <= EffectiveLimit(op)
       /\ Len(result.data) = Between(EffectiveLimit(op), 0, Len(response.data))

\* `search ai -n 2`: max_results 10 was sent, three tweets came back, two are
\* returned.
C26_Witness ==
  /\ pc = "idle"
  /\ op.type = "search"
  /\ EffectiveLimit(op) = 2
  /\ req.max_results = 10
  /\ Len(response.data) = 3
  /\ result.status = "ok"
  /\ Len(result.data) = 2
  /\ counts.requests = 1

\* C27, as stated: for every limit <= 0 an operation that returns, returns
\* zero records, on the mock path and on the network path alike.
C27_AsStated ==
  (pc = "idle" /\ result.status = "ok" /\ EffectiveLimit(op) <= 0) => result.data = <<>>

\* C27: a limit of 0 or below is passed through unvalidated and raises no
\* error of its own.  Limit 0 yields zero records on every path; a negative
\* limit yields zero records on the mock path, and on the network path the
\* request carries the lower bound of max_results and the result is the
\* response without its last -limit records.
C27_NonPositiveLimit ==
  (pc = "idle" /\ EffectiveLimit(op) <= 0 /\ result.status # "none") =>
    /\ result.status = "error" =>
         /\ counts.requests > 0
         /\ \/ ~request(response).ok
            \/ response.shape = "object"
            \/ result.error = "User not found"
    /\ (result.status = "ok" /\ EffectiveLimit(op) = 0) => result.data = <<>>
    /\ (result.status = "ok" /\ counts.mockCalls > 0) => result.data = <<>>
    /\ (result.status = "ok" /\ counts.requests > 0) =>
         /\ req.max_results = (IF op.type = "user" THEN 5 ELSE 10)
         /\ EffectiveLimit(op) < 0 =>
              Len(result.data) = Between(Len(response.data) + EffectiveLimit(op), 0, Len(response.data))

\* `-n -1` on the network path: three tweets came back, two are returned.
C27_Witness ==
  /\ pc = "idle"
  /\ EffectiveLimit(op) = 0 - 1
  /\ counts.requests > 0
  /\ Len(response.data) = 3
  /\ result.status = "ok"
  /\ Len(result.data) = 2

\* The kind of error a failed request is to be surfaced as.
ErrorKind(resp) ==
  CASE resp.kind \in {TransportError, Timeout} -> "NetworkFailure"
    [] ~resp.parses -> "MalformedResponse"
    [] resp.status = 401 -> "Unauthorized"
    [] resp.status = 403 -> "Forbidden"
    [] resp.status = 404 -> "NotFound"
    [] resp.status = 429 -> "RateLimited"
    [] OTHER -> "Error"

\* C22, as stated: an operation whose request failed rejects with an error of
\* the kind of the failure (Unauthorized, Forbidden, NotFound, RateLimited,
\* NetworkFailure, MalformedResponse), and the error of an exhausted quota
\* (429) carries the reset time of the response's rate-limit headers.
C22_AsStated ==
  (pc = "idle" /\ result.status = "error" /\ counts.requests > 0 /\ ~request(response).ok) =>
    /\ ErrorClass(result) = ErrorKind(response)
    /\ (response.status = 429 /\ response.parses) =>
         /\ result.rateLimit.present
         /\ result.rateLimit.resetAt = parseRateLimits(response.headers).resetAt

\* The ttl an entry is to carry: the argument when one is given, the configured
\* minutes in milliseconds otherwise, 15 minutes when none are configured.
StatedTtl(cl) ==
  IF cl.ttl.t # "undef" THEN cl.ttl.n
  ELSE (IF cl.cfg.cacheTtlMinutes.t = "undef" THEN 15 ELSE cl.cfg.cacheTtlMinutes.n) * 60000

\* C28, as stated: with caching enabled, the entry setCache(key, payload, ttl)
\* leaves carries the ttl argument as given, or without one the configured
\* cacheTtlMinutes x 60000 ms (15 minutes when the setting is absent), for
\* every value of the argument and of the setting, 0 included.
C28_AsStated ==
  (call.fn = "setCache" /\ isCacheEnabled(call.cfg)) =>
    /\ call.key \in DOMAIN StoreAfter(call)
    /\ StoreAfter(call)[call.key].ttl = StatedTtl(call)

\* What the process of call cl holds when its call begins to write: its own
\* copy once it has loaded the file, the file's content at its first call.
HeldAtCall(cl) ==
  IF ~cl.was.c.loaded /\ cl.was.disk.state = "ok" THEN cl.was.disk.store ELSE cl.was.c.mem

\* C24: with two processes on one cache file and no lock, a process loads the
\* file at its first cache call only and afterwards changes its own copy; each
\* setCache writes the whole copy over the file.  After a setCache the file is
\* therefore the copy of the process that wrote last, that is what it held
\* plus the new entry, whatever the other process had written to the file in
\* between.
C24_LastWriterWins ==
  /\ (call.fn = "setCache" /\ isCacheEnabled(call.cfg)) =>
       /\ call.out.c.loaded
       /\ call.out.c.mem = StoreWith(HeldAtCall(call), call.key, EntryWritten(call))
       /\ cacheFile = call.out.disk
       /\ cacheFile.store = StoreToJson(call.out.c.mem)
       /\ memoryCache = call.out.c.mem \/ peer.mem = call.out.c.mem
  /\ (call.fn = "getCache" /\ call.was.c.loaded) => call.out.c.mem = call.was.c.mem

\* An update is lost: the process that wrote last holds no entry under a key
\* the other process holds an entry for, and the file has none either.
C24_Witness ==
  /\ call.fn = "setCache"
  /\ memoryCache = call.out.c.mem
  /\ peer.loaded
  /\ \E k \in DOMAIN peer.mem : k \notin DOMAIN cacheFile.store /\ k \notin DOMAIN memoryCache
  /\ call.was.disk.store # EmptyStore

Least(S) == CHOOSE x \in S : \A y \in S : x <= y

\* The quote that closes the quoted field opened at s[i]: the first quote
\* after an even number of quotes that is not followed by a quote (inside a
\* quoted field two quotes stand for one).  Len(s) + 1 if the field is not closed.
ClosingQuote(s, i) ==
  LET closes == { j \in (i + 1)..Len(s) :
                    /\ s[j] = 34
                    /\ Cardinality({ k \in (i + 1)..j : s[k] = 34 }) % 2 = 1
                    /\ (j = Len(s) \/ s[j + 1] # 34) }
  IN IF closes = {} THEN Len(s) + 1 ELSE Least(closes)

\* The first comma or newline at or after s[i]; Len(s) + 1 if there is none.
NextSeparator(s, i) ==
  LET seps == { j \in i..Len(s) : s[j] \in {44, 10} }
  IN IF seps = {} THEN Len(s) + 1 ELSE Least(seps)

\* The content of a quoted field with every pair of quotes read as one quote.
Unquoted(c) ==
  LET run(k) == Cardinality({ j \in 1..k : \A m \in j..k : c[m] = 34 })
      kept == { k \in 1..Len(c) : c[k] # 34 \/ run(k) % 2 = 1 }
  IN [n \in 1..Cardinality(kept) |->
        c[CHOOSE k \in kept : Cardinality({ x \in kept : x <= k }) = n]]

\* A reader of RFC 4180 text, from s[i] on, rec being the fields already read
\* of the current record: a quote at the start of a field opens a quoted field,
\* a comma ends a field and a newline outside quotes ends a record.
RECURSIVE CsvRecords(_, _, _)
CsvRecords(s, i, rec) ==
  LET opened == i <= Len(s) /\ s[i] = 34
      close == ClosingQuote(s, i)
      stop == NextSeparator(s, IF opened THEN close + 1 ELSE i)
      field == IF opened
               THEN Unquoted(SubSeq(s, i + 1, close - 1)) \o SubSeq(s, close + 1, stop - 1)
               ELSE SubSeq(s, i, stop - 1)
  IN IF stop > Len(s) THEN << Append(rec, field) >>
     ELSE IF s[stop] = 44 THEN CsvRecords(s, stop + 1, Append(rec, field))
     ELSE << Append(rec, field) >> \o CsvRecords(s, stop + 1, <<>>)

ParseCsv(text) == CsvRecords(text, 1, <<>>)

\* The column of the text: the fourth of lib/format, the third of lib/formatter.
TextColumn(cl) == IF cl.fn = "format" THEN 4 ELSE 3

\* The text a CSV reader finds for the first record of the output.
TextRead(cl) ==
  LET recs == ParseCsv(cl.csv)
  IN IF Len(recs) >= 2 /\ Len(recs[2]) >= TextColumn(cl) THEN recs[2][TextColumn(cl)] ELSE <<0>>

Formatted(cl) == cl.fn \in {"format", "formatter"}

\* C23, as stated: for every text with a comma, a double quote or a newline,
\* reading the output of formatCsv as CSV gives the text back unchanged.
C23_AsStated ==
  (Formatted(call) /\ \E i \in DOMAIN call.arg : call.arg[i] \in {44, 34, 10})
    => TextRead(call) = call.arg

\* C23: reading the output of formatCsv as CSV gives one record per tweet after
\* the header, all with the header's number of fields, and for the text the
\* original with every newline replaced by a space: a text with commas and
\* double quotes and no newline comes back unchanged.
C23_RoundTripUpToNewlines ==
  Formatted(call) =>
    /\ Len(ParseCsv(call.csv)) = 3
    /\ \A i \in 1..3 : Len(ParseCsv(call.csv)[i]) = Len(ParseCsv(call.csv)[1])
    /\ TextRead(call) = [i \in DOMAIN call.arg |-> IF call.arg[i] = 10 THEN 32 ELSE call.arg[i]]
    /\ (\A i \in DOMAIN call.arg : call.arg[i] # 10) => TextRead(call) = call.arg

\* The text `","` (quote, comma, quote) was formatted by lib/format and read
\* back unchanged.
C23_Witness ==
  /\ call.fn = "format"
  /\ call.arg = <<34, 44, 34>>
  /\ TextRead(call) = call.arg

\* A setup or `config set bearerToken` command has run to its exit.
TokenCommand == cmd.exited /\ cmd.name \in {"setup", "config set"}

\* C30, as stated: the wizard and `config set bearerToken --validate` write
\* the config file only after validateToken reported the token valid (or the
\* wizard skipped validation); a failed validation exits with code 1 and
\* leaves the config file unchanged; with the token in the environment
\* variable the wizard never writes the config file.
C30_AsStated ==
  (TokenCommand /\ (cmd.name = "setup" \/ cmd.mode = "validate")) =>
    /\ configFile # cmd.before =>
         (cmd.checked = "valid" \/ (cmd.name = "setup" /\ cmd.mode = "skip-validation"))
    /\ cmd.checked = "invalid" => (cmd.code = 1 /\ configFile = cmd.before)
    /\ (cmd.name = "setup" /\ Truthy(cmd.envToken)) => configFile = cmd.before

\* C30: as above, except that the failed validation that exits with code 1 is
\* that of the token typed into the wizard or given to `config set`; when
\* the wizard finds the token in the environment variable it validates that
\* token, writes nothing and ends with code 0 whether it is valid or not.
C30_ValidatedBeforeSaved ==
  (TokenCommand /\ (cmd.name = "setup" \/ cmd.mode = "validate")) =>
    /\ configFile # cmd.before =>
         /\ cmd.checked = "valid" \/ (cmd.name = "setup" /\ cmd.mode = "skip-validation")
         /\ configFile = [cmd.before EXCEPT !.bearerToken = Str(cmd.arg),
                            !.cacheEnabled = IF @.t = "undef" THEN Bool(TRUE) ELSE @,
                            !.cacheTtlMinutes = IF @.t = "undef" THEN Num(15) ELSE @]
         /\ cmd.code = 0
    /\ (cmd.checked = "invalid" /\ ~(cmd.name = "setup" /\ Truthy(cmd.envToken))) =>
         (cmd.code = 1 /\ configFile = cmd.before)
    /\ (cmd.name = "setup" /\ Truthy(cmd.envToken)) =>
         (configFile = cmd.before /\ cmd.code = 0 /\ cmd.checked # "none")

\* The wizard, with a token in the config file and one in the environment,
\* has validated the environment's token, found it invalid, and written nothing.
C30_Witness ==
  /\ TokenCommand
  /\ cmd.name = "setup"
  /\ Truthy(cmd.envToken)
  /\ Truthy(cmd.before.bearerToken)
  /\ cmd.checked = "invalid"
  /\ cmd.code = 0
  /\ configFile = cmd.before

====
